---------------------------- MODULE Spec2Model ----------------------------
(***************************************************************************)
(* A model of the ragged-blocks layout core: tree re-association, the      *)
(* Timetable, the Backing, and the L1P (Pebble), L1S (Rocks), Blocks and   *)
(* S-Blocks layout passes, as far as the properties of their results need. *)
(*                                                                         *)
(* Indices (columns, backing indices, line numbers) are 0-based as in the  *)
(* source; TLA+ sequences are 1-based, so element i of a list l is         *)
(* l[i + 1].  All coordinates are integers.                                *)
(***************************************************************************)
EXTENDS Integers, Sequences, FiniteSets, TLC

VARIABLES
  input,          \* the layout tree handed to the entry point
  algo,           \* the algorithm that is run on it
  settings,       \* [translateWraps, idealLeading]
  pc,             \* position in the entry point
  rlt,            \* the reassociated tree
  timetable,      \* [columns, maxDepth]
  ltWithRegions,  \* the tree annotated by the Timetable / by a layout pass
  backing,        \* the Backing of the Rocks layout
  layout,         \* the list of lines (L1s / L1p)
  loop,           \* the line-stacking loop: [i, lastLineOffset, done]
  result,         \* what fragmentsInfo() returned
  error,          \* the message of the error thrown, or NoError
  query           \* the last spaceBetween call: [a, b, out]

vars == <<input, algo, settings, pc, rlt, timetable, ltWithRegions, backing,
          layout, loop, result, error, query>>

None == [type |-> "None"]
NoError == "none"

-----------------------------------------------------------------------------
(* Small helpers on sequences and numbers.                                 *)

Max(a, b) == IF a >= b THEN a ELSE b
Min(a, b) == IF a <= b THEN a ELSE b

Last(s) == s[Len(s)]
ButLast(s) == SubSeq(s, 1, Len(s) - 1)

RECURSIVE Reverse(_)
Reverse(s) == IF s = <<>> THEN <<>> ELSE Reverse(Tail(s)) \o <<Head(s)>>

RECURSIVE Concat(_)
Concat(ss) == IF ss = <<>> THEN <<>> ELSE Head(ss) \o Concat(Tail(ss))

RECURSIVE SumSeq(_)
SumSeq(s) == IF s = <<>> THEN 0 ELSE Head(s) + SumSeq(Tail(s))

-----------------------------------------------------------------------------
(* Input layout trees.                                                     *)

MkRect(l, r, t, b) == [left |-> l, right |-> r, top |-> t, bottom |-> b]

Atom(text, rect) == [type |-> "Atom", text |-> text, rect |-> rect]
Spacer(w) == [type |-> "Spacer", text |-> "", width |-> w]
Newline == [type |-> "Newline"]
Node(children, padding) ==
  [type |-> "Node", children |-> children, padding |-> padding]
StyledNode(children, padding, sty) ==
  [type |-> "Node", children |-> children, padding |-> padding, sty |-> sty]

\* A node decoration is [padding] or [padding, sty].
Decorate(children, deco) ==
  IF "sty" \in DOMAIN deco
  THEN StyledNode(children, deco.padding, deco.sty)
  ELSE Node(children, deco.padding)

\* The trees with exactly n leaves-and-nodes over the given leaves and node
\* decorations, and the lists of trees (children) with n in total.
RECURSIVE TreesOfSize(_, _, _), Forests(_, _, _)
TreesOfSize(n, Leaves, Decos) ==
  (IF n = 1 THEN Leaves ELSE {})
    \cup { Decorate(f, d) : d \in Decos, f \in Forests(n - 1, Leaves, Decos) }
Forests(n, Leaves, Decos) ==
  IF n = 0 THEN { <<>> }
  ELSE UNION { { <<t>> \o f : t \in TreesOfSize(k, Leaves, Decos),
                              f \in Forests(n - k, Leaves, Decos) } : k \in 1..n }

TreesUpTo(n, Leaves, Decos) ==
  UNION { TreesOfSize(k, Leaves, Decos) : k \in 1..n }

-----------------------------------------------------------------------------
(* Thrown errors.  An operation that can throw returns Ok(v) or Throw(msg). *)

Ok(v) == [ok |-> TRUE, val |-> v]
Throw(msg) == [ok |-> FALSE, msg |-> msg]

\* A thrown error passes through the statements that follow: F is applied
\* to the value of r only if r did not throw.
Bind(r, F(_)) == IF r.ok THEN F(r.val) ELSE r

\* The messages of the assertions of parse and reassocLayoutTree.
MalformedEnd == "token stream is malformed (Unexpected end)"
MalformedOp == "token stream is malformed (expected Op)"
MalformedE == "token stream is malformed (expected E)"
EmptyTokens == "The input token list must not be empty."
StartsWithOp == "The input token list must start with an expression."
NotConsumed == "Parse failed to consume entire input."
AssertFailed == "assertion failed"

-----------------------------------------------------------------------------
(* Reassociation (reassoc-layout-tree.ts).                                 *)

JoinH(lhs, rhs) == [type |-> "JoinH", lhs |-> lhs, rhs |-> rhs]
JoinV(lhs, rhs) == [type |-> "JoinV", lhs |-> lhs, rhs |-> rhs]

opPrecedenceLoose(op) ==
  CASE op = "End" -> 0
    [] op = "Newline" -> 2
    [] op = "NextTo" -> 1

opPrecedence(op) ==
  CASE op = "End" -> 0
    [] op = "Newline" -> 1
    [] op = "NextTo" -> 2

ETok(layoutTree) == [type |-> "E", layoutTree |-> layoutTree]
OpTok(op) == [type |-> "Op", op |-> op]

\* parse's inner go(op1, e1, rest).  rest is the reversed token list: the
\* next token is its last element.  The source mutates rest in place and
\* returns the expression; here the list left over is returned with it.
RECURSIVE go(_, _, _)
go(op1, e1, rest) ==
  IF Len(rest) = 0 THEN Ok([e |-> e1, rest |-> rest])
  ELSE IF ~(Len(rest) >= 2) THEN Throw(MalformedEnd)
  ELSE
    LET op2 == Last(rest)
        rest1 == ButLast(rest)
        e2 == Last(rest1)
        rest2 == ButLast(rest1)
    IN IF op2.type # "Op" THEN Throw(MalformedOp)
       ELSE IF e2.type # "E" THEN Throw(MalformedE)
       ELSE IF opPrecedence(op1) >= opPrecedence(op2.op)
       THEN \* Put e2 and op2 back on the stream.
            Ok([e |-> e1, rest |-> rest2 \o <<e2, op2>>])
       ELSE
         LET rhs == go(op2.op, e2.layoutTree, rest2)
         IN IF ~rhs.ok THEN rhs
            ELSE IF op2.op = "End" THEN Throw(AssertFailed)
            ELSE
              LET e == IF op2.op = "NextTo"
                       THEN JoinH(e1, rhs.val.e)
                       ELSE JoinV(e1, rhs.val.e)
              IN go(op1, e, rhs.val.rest)

parse(tokens) ==
  IF ~(Len(tokens) > 0) THEN Throw(EmptyTokens)
  ELSE
    LET e0 == Last(tokens)
    IN IF e0.type # "E" THEN Throw(StartsWithOp)
       ELSE
         LET res == go("End", e0.layoutTree, ButLast(tokens))
         IN IF ~res.ok THEN res
            ELSE IF ~(Len(res.val.rest) = 0) THEN Throw(NotConsumed)
            ELSE Ok(res.val.e)

putEmptyAtom(tokens, empty) ==
  tokens \o <<ETok([type |-> "Atom", text |-> ""])>>

putEmpty(tokens, empty) == tokens \o <<ETok(empty)>>

putNewlineNoSentinel(tokens, empty) == Ok(tokens \o <<OpTok("Newline")>>)

\* Put a Newline token on the stream; no two operators end up adjacent.
putNewline(tokens, empty) ==
  IF Len(tokens) = 0
  THEN Ok(putEmpty(tokens, empty) \o <<OpTok("Newline")>>)
  ELSE
    LET last == Last(tokens)
    IN IF last.type = "Op"
       THEN IF last.op # "Newline" THEN Throw(AssertFailed)
            ELSE Ok(putEmpty(tokens, empty) \o <<OpTok("Newline")>>)
       ELSE Ok(tokens \o <<OpTok("Newline")>>)

\* Put an expression on the stream, separated from the last expression by a
\* NextTo operator.
putLayoutTree(tokens, layoutTree) ==
  IF Len(tokens) = 0 THEN Ok(tokens \o <<ETok(layoutTree)>>)
  ELSE
    LET last == Last(tokens)
    IN IF last.type = "Op"
       THEN IF last.op # "Newline" THEN Throw(AssertFailed)
            ELSE Ok(tokens \o <<ETok(layoutTree)>>)
       ELSE Ok(tokens \o <<OpTok("NextTo"), ETok(layoutTree)>>)

WrapNoStyle(lt, child) ==
  [type |-> "Wrap", child |-> child, padding |-> lt.padding]

\* The Wrap built for the Node lt: sty is copied only when lt has one.
WrapOf(lt, child) ==
  IF "sty" \in DOMAIN lt
  THEN [type |-> "Wrap", child |-> child, padding |-> lt.padding, sty |-> lt.sty]
  ELSE [type |-> "Wrap", child |-> child, padding |-> lt.padding]

RECURSIVE reassocLayoutTree(_, _), putChildren(_, _, _)
\* The loop over lt.children: each child is put on the token stream.
putChildren(children, tokens, empty) ==
  IF children = <<>> THEN Ok(tokens)
  ELSE
    LET child == Head(children)
        put == CASE child.type = "Newline" -> putNewline(tokens, empty)
                 [] child.type \in {"Atom", "Spacer"} -> putLayoutTree(tokens, child)
                 [] child.type = "Node" ->
                      LET sub == reassocLayoutTree(child, empty)
                      IN IF sub.ok THEN putLayoutTree(tokens, sub.val) ELSE sub
    IN IF ~put.ok THEN put ELSE putChildren(Tail(children), put.val, empty)

reassocLayoutTree(lt, empty) ==
  CASE lt.type \in {"Atom", "Spacer"} -> Ok(lt)
    [] lt.type = "Newline" -> Throw(AssertFailed)
    [] lt.type = "Node" ->
         LET put == putChildren(lt.children, <<>>, empty)
         IN IF ~put.ok THEN put
            ELSE
              LET tokens0 == put.val
                  \* a trailing operator gets an empty term after it
                  tokens == IF Len(tokens0) >= 1 /\ Last(tokens0).type = "Op"
                            THEN putEmpty(tokens0, empty) ELSE tokens0
                  child == IF Len(tokens) > 0 THEN parse(Reverse(tokens))
                           ELSE Ok(empty)
              IN IF ~child.ok THEN child ELSE Ok(WrapOf(lt, child.val))

-----------------------------------------------------------------------------
(* The timetable (rocks-layout/timetable.ts).  A column is a sequence of   *)
(* cells, innermost wrap first; a Spacer's column is null.  Depth d of a   *)
(* column is its d-th cell; depth 0 is the implicit base cell.             *)

Wrap(child, padding) == [type |-> "Wrap", child |-> child, padding |-> padding]

BASE_CELL == [uid |-> 0, padding |-> 0]

NullColumn == [null |-> TRUE, cells |-> <<>>]
CellColumn(cells) == [null |-> FALSE, cells |-> cells]

topOfColumn(column) ==
  IF Len(column) = 0 THEN BASE_CELL ELSE column[Len(column)]

fillColumn(column, depth) ==
  column \o [i \in 1..Max(0, depth - Len(column)) |-> topOfColumn(column)]

wrapColumnFlat(column, padding, uid) ==
  Append(column, [padding |-> padding, uid |-> uid])

wrapColumn(column, padding, uid) ==
  Append(column, [padding |-> padding + topOfColumn(column).padding, uid |-> uid])

\* The loops over columns[begin .. end - 1] of fromLayoutTree.
fillRange(columns, begin, end, depth) ==
  [i \in 1..Len(columns) |->
     IF begin < i /\ i <= end /\ ~columns[i].null
     THEN CellColumn(fillColumn(columns[i].cells, depth))
     ELSE columns[i]]

fillAndWrapRange(columns, begin, end, depth, padding, uid) ==
  [i \in 1..Len(columns) |->
     IF begin < i /\ i <= end /\ ~columns[i].null
     THEN CellColumn(wrapColumn(fillColumn(columns[i].cells, depth), padding, uid))
     ELSE columns[i]]

\* fromLayoutTree's inner go.  st holds the columns built so far and the
\* next uid; the result adds the depth and the tree with regions.
RECURSIVE timetableGo(_, _)
timetableGo(root, st) ==
  CASE root.type = "Spacer" ->
         [depth |-> 0,
          tree |-> root @@ [stackRef |-> [depth |-> 0, index |-> Len(st.columns)]],
          columns |-> Append(st.columns, NullColumn),
          nextId |-> st.nextId]
    [] root.type = "Atom" ->
         [depth |-> 0,
          tree |-> root @@ [stackRef |-> [depth |-> 0, index |-> Len(st.columns)]],
          columns |-> Append(st.columns, CellColumn(<<>>)),
          nextId |-> st.nextId]
    [] root.type \in {"JoinH", "JoinV"} ->
         LET begin == Len(st.columns)
             l == timetableGo(root.lhs, st)
             r == timetableGo(root.rhs, [columns |-> l.columns, nextId |-> l.nextId])
             end == Len(r.columns)
             maxDepth == Max(l.depth, r.depth)
         IN [depth |-> maxDepth,
             tree |-> [type |-> root.type, lhs |-> l.tree, rhs |-> r.tree,
                       region |-> [range |-> [begin |-> begin, end |-> end],
                                   depth |-> maxDepth]],
             columns |-> fillRange(r.columns, begin, end, maxDepth),
             nextId |-> r.nextId]
    [] root.type = "Wrap" ->
         LET uid == st.nextId
             begin == Len(st.columns)
             c == timetableGo(root.child, [columns |-> st.columns, nextId |-> uid + 1])
             end == Len(c.columns)
         IN [depth |-> c.depth + 1,
             tree |-> [root EXCEPT !.child = c.tree] @@
                      [uid |-> uid,
                       region |-> [range |-> [begin |-> begin, end |-> end],
                                   depth |-> c.depth + 1]],
             columns |-> fillAndWrapRange(c.columns, begin, end, c.depth,
                                          root.padding, uid),
             nextId |-> c.nextId]

\* Timetable.fromLayoutTree: the timetable and the tree with regions.
fromLayoutTree(layoutTree) ==
  LET g == timetableGo(layoutTree, [columns |-> <<>>, nextId |-> 1])
  IN [timetable |-> [columns |-> fillRange(g.columns, 0, Len(g.columns), g.depth),
                     maxDepth |-> g.depth],
      withRegions |-> g.tree]

isSpacer(tt, index) ==
  index + 1 \in DOMAIN tt.columns /\ tt.columns[index + 1].null

\* The two assertions of getCell.
cellExists(tt, index, depth) ==
  \/ depth = 0
  \/ /\ index + 1 \in DOMAIN tt.columns
     /\ ~tt.columns[index + 1].null
     /\ depth <= Len(tt.columns[index + 1].cells)

getCell(tt, index, depth) ==
  IF depth = 0 THEN BASE_CELL ELSE tt.columns[index + 1].cells[depth]

getUid(tt, index, depth) == getCell(tt, index, depth).uid

getPadding(tt, index, depth) == getCell(tt, index, depth).padding

getMaxPadding(tt, index) ==
  IF cellExists(tt, index, tt.maxDepth)
  THEN Ok(getPadding(tt, index, tt.maxDepth))
  ELSE Throw(AssertFailed)

\* The while loop of spaceBetween; a and b are the depths reached in the
\* two columns.  The result is the pair of depths at which it stops.
RECURSIVE spaceBetweenLoop(_, _, _, _, _, _, _)
spaceBetweenLoop(tt, aIdx, bIdx, a, b, aUid, bUid) ==
  IF ~(a > 0 /\ b > 0) THEN <<a, b>>
  ELSE
    LET aNextUid == getUid(tt, aIdx, a - 1)
        bNextUid == getUid(tt, bIdx, b - 1)
        m1 == aUid = aNextUid
        aUid1 == IF m1 THEN aNextUid ELSE aUid
        a1 == IF m1 THEN a - 1 ELSE a
        m2 == bUid = aNextUid
        bUid1 == IF m2 THEN bNextUid ELSE bUid
        b1 == IF m2 THEN b - 1 ELSE b
        m3 == aUid1 = bUid1
        aUid2 == IF m3 THEN aNextUid ELSE aUid1
        a2 == IF m3 THEN a - 1 ELSE a1
        bUid2 == IF m3 THEN bNextUid ELSE bUid1
        b2 == IF m3 THEN b - 1 ELSE b1
        stuck == ~(m1 \/ m2 \/ m3)
    IN IF stuck THEN <<a, b>>
       ELSE spaceBetweenLoop(tt, aIdx, bIdx, a2, b2, aUid2, bUid2)

spaceBetweenNoPeel(tt, aIdx, bIdx) ==
  IF isSpacer(tt, aIdx) \/ isSpacer(tt, bIdx) THEN Ok(<<0, 0>>)
  ELSE IF ~cellExists(tt, aIdx, tt.maxDepth) \/ ~cellExists(tt, bIdx, tt.maxDepth)
  THEN Throw(AssertFailed)
  ELSE Ok(<<getPadding(tt, aIdx, tt.maxDepth), getPadding(tt, bIdx, tt.maxDepth)>>)

spaceBetween(tt, aIdx, bIdx) ==
  IF isSpacer(tt, aIdx) \/ isSpacer(tt, bIdx) THEN Ok(<<0, 0>>)
  ELSE IF ~cellExists(tt, aIdx, tt.maxDepth) \/ ~cellExists(tt, bIdx, tt.maxDepth)
  THEN Throw(AssertFailed)
  ELSE
    LET paddingsAt(stop) ==
          Ok(<<getPadding(tt, aIdx, stop[1]), getPadding(tt, bIdx, stop[2])>>)
    IN paddingsAt(spaceBetweenLoop(tt, aIdx, bIdx, tt.maxDepth, tt.maxDepth,
                                   getUid(tt, aIdx, tt.maxDepth),
                                   getUid(tt, bIdx, tt.maxDepth)))

-----------------------------------------------------------------------------
(* Rectangles, points and vectors (rect.ts, point.ts, vector.ts).          *)

Vec(dx, dy) == [dx |-> dx, dy |-> dy]
Pt(x, y) == [x |-> x, y |-> y]

translate(r, v) ==
  [left |-> r.left + v.dx, right |-> r.right + v.dx,
   top |-> r.top + v.dy, bottom |-> r.bottom + v.dy]

width(r) == r.right - r.left
height(r) == r.bottom - r.top

inflate(r, amt) ==
  [left |-> r.left - amt, right |-> r.right + amt,
   top |-> r.top - amt, bottom |-> r.bottom + amt]

horizontallyOverlapNever(a, b) == FALSE

horizontallyOverlap(a, b) == a.left < b.right /\ b.left < a.right

union(a, b) ==
  [left |-> Min(a.left, b.left), right |-> Max(a.right, b.right),
   top |-> Min(a.top, b.top), bottom |-> Max(a.bottom, b.bottom)]

add(a, b) == Vec(a.dx + b.dx, a.dy + b.dy)
addVector(pt, v) == Pt(pt.x + v.dx, pt.y + v.dy)
subPoints(a, b) == Vec(a.x - b.x, a.y - b.y)

-----------------------------------------------------------------------------
(* Regions (rocks-layout/region.ts).                                       *)

\* The value "EmptyRegion", as a record so that it compares with regions.
EMPTY == [type |-> "EmptyRegion"]

singletonRange(index) == [begin |-> index, end |-> index + 1]

regionFromStackRef(stackRef) ==
  [depth |-> stackRef.depth, range |-> singletonRange(stackRef.index)]

\* As joinRegions, but the joined region ends where the left one ends.
joinRegionsKeepsLeft(lhs, rhs) ==
  IF lhs = EMPTY THEN Ok(rhs)
  ELSE IF rhs = EMPTY THEN Ok(lhs)
  ELSE IF ~(lhs.range.end = rhs.range.begin) THEN Throw(AssertFailed)
  ELSE Ok([range |-> [begin |-> lhs.range.begin, end |-> lhs.range.end],
           depth |-> Min(lhs.depth, rhs.depth)])

joinRegions(lhs, rhs) ==
  IF lhs = EMPTY THEN Ok(rhs)
  ELSE IF rhs = EMPTY THEN Ok(lhs)
  ELSE IF ~(lhs.range.end = rhs.range.begin) THEN Throw(AssertFailed)
  ELSE Ok([range |-> [begin |-> lhs.range.begin, end |-> rhs.range.end],
           depth |-> Min(lhs.depth, rhs.depth)])

\* The indices of a region in increasing order, as a set.
enumerateIndices(region) ==
  IF region = EMPTY THEN {} ELSE region.range.begin..(region.range.end - 1)

-----------------------------------------------------------------------------
(* The backing store (rocks-layout/backing.ts).  elements[i + 1] is the    *)
(* element of index i; chunks maps every chunk number in                   *)
(* minChunk..maxChunk to the set of indices registered in that chunk.      *)

CELL_SIZE == 100

RectElt(rect, maxPadding) == [spacer |-> FALSE, rect |-> rect, maxPadding |-> maxPadding]
SpacerElt(w) == [spacer |-> TRUE, width |-> w]

newBacking ==
  [elements |-> <<>>, chunks |-> [c \in {0} |-> {}], minChunk |-> 0, maxChunk |-> 0]

chunkRangeOfRect(elt) ==
  << (elt.rect.top - elt.maxPadding) \div CELL_SIZE,
     (elt.rect.bottom + elt.maxPadding) \div CELL_SIZE >>

\* getOrAddChunk(i).add(index) for every i of lo..hi, with the chunks
\* addChunksUpto creates on the way.
addToChunks(b, index, lo, hi) ==
  IF lo > hi THEN b
  ELSE
    LET newMin == Min(b.minChunk, lo)
        newMax == Max(b.maxChunk, hi)
    IN [b EXCEPT
          !.minChunk = newMin,
          !.maxChunk = newMax,
          !.chunks = [c \in newMin..newMax |->
                        (IF c \in DOMAIN b.chunks THEN b.chunks[c] ELSE {})
                          \cup (IF lo <= c /\ c <= hi THEN {index} ELSE {})]]

deleteFromChunks(b, index, lo, hi) ==
  [b EXCEPT !.chunks = [c \in DOMAIN b.chunks |->
                          IF lo <= c /\ c <= hi THEN b.chunks[c] \ {index}
                          ELSE b.chunks[c]]]

\* As translateRect, but the rectangle keeps the chunks it was in.
translateRectKeepsChunks(b, index, v) ==
  LET elt == b.elements[index + 1]
  IN IF elt.spacer THEN b
     ELSE [b EXCEPT !.elements[index + 1] =
                      [elt EXCEPT !.rect = translate(elt.rect, v)]]

translateRect(b, index, v) ==
  LET elt == b.elements[index + 1]
  IN IF elt.spacer THEN b
     ELSE
       LET old == chunkRangeOfRect(elt)
           moved == [elt EXCEPT !.rect = translate(elt.rect, v)]
           new == chunkRangeOfRect(moved)
           b1 == deleteFromChunks(b, index, old[1], old[2])
           b2 == [b1 EXCEPT !.elements[index + 1] = moved]
       IN addToChunks(b2, index, new[1], new[2])

\* The values iterChunks yields, from maxChunk down to minChunk: each is
\* an array holding the chunk's indices.
iterChunks(b) ==
  [k \in 1..(b.maxChunk - b.minChunk + 1) |->
     [array |-> b.chunks[b.maxChunk - (k - 1)]]]

\* As pushRect, but the rectangle is first moved so that its top is 0.
pushRectAtOrigin(b, r, maxPadding) ==
  LET elt == RectElt(MkRect(r.left, r.right, 0, r.bottom - r.top), maxPadding)
      index == Len(b.elements)
      range == chunkRangeOfRect(elt)
  IN [backing |-> addToChunks([b EXCEPT !.elements = Append(@, elt)],
                              index, range[1], range[2]),
      index |-> index]

pushRect(b, r, maxPadding) ==
  LET elt == RectElt(r, maxPadding)
      index == Len(b.elements)
      range == chunkRangeOfRect(elt)
  IN [backing |-> addToChunks([b EXCEPT !.elements = Append(@, elt)],
                              index, range[1], range[2]),
      index |-> index]

pushSpacer(b, w) ==
  [backing |-> [b EXCEPT !.elements = Append(@, SpacerElt(w))],
   index |-> Len(b.elements)]

RECURSIVE translateFrom(_, _, _, _)
translateFrom(b, i, end, v) ==
  IF ~(i < end) THEN b ELSE translateFrom(translateRect(b, i, v), i + 1, end, v)

translateRange(b, range, v) ==
  IF ~(range.begin >= 0 /\ range.end <= Len(b.elements)) THEN Throw(AssertFailed)
  ELSE Ok(translateFrom(b, range.begin, range.end, v))

translateRegion(b, region, v) ==
  IF region # EMPTY THEN translateRange(b, region.range, v) ELSE Ok(b)

\* The rectangle of an element, or the width of a spacer.
getByIndex(b, index) ==
  LET e == b.elements[index + 1]
  IN IF e.spacer THEN e.width ELSE e.rect

isNumber(b, index) == b.elements[index + 1].spacer

-----------------------------------------------------------------------------
(* Rocks layout, L1S (rocks-layout/layout.ts).  A layout is a sequence of  *)
(* lines, each a region of the backing with an origin and an advance.      *)

NotIterable == "TypeError: undefined is not iterable"

Line(region, origin, advance) ==
  [region |-> region, origin |-> origin, advance |-> advance]

\* One pair of the inner loop (lines 61-72): whether the inflated
\* rectangles overlap horizontally, and the offset they ask for.
overlapOnB(ra, rb, sp) ==
  horizontallyOverlap(inflate(ra, sp[1]), inflate(rb, sp[2]))

offsetOnB(ra, rb, sp) == inflate(ra, sp[1]).bottom - inflate(rb, sp[2]).top

\* The offsets found for b among the indices of one chunk (lines 48-78):
\* the empty set stands for maxOffsetOnB = null.
offsetsOnB(b, tt, a, bIdx, aIndices) ==
  { offsetOnB(getByIndex(b, aIdx), getByIndex(b, bIdx),
              spaceBetween(tt, aIdx, bIdx).val) :
      aIdx \in { i \in aIndices :
                   /\ ~(i < a.range.begin \/ i >= a.range.end)
                   /\ ~isNumber(b, i)
                   /\ overlapOnB(getByIndex(b, i), getByIndex(b, bIdx),
                                 spaceBetween(tt, i, bIdx).val) } }

SetMax(S) == CHOOSE x \in S : \A y \in S : y <= x

\* The loop over the values of iterChunks for one b (lines 45-92).  The
\* loop destructures `indices` and `minY` from each value; a value without
\* `indices` leaves aIndices undefined and the inner for...of throws.
RECURSIVE leadingOverChunks(_, _, _, _, _, _, _, _)
leadingOverChunks(b, tt, a, bIdx, maxPadding, yielded, k, maxOffset) ==
  IF k > Len(yielded) THEN Ok(maxOffset)
  ELSE IF "indices" \notin DOMAIN yielded[k] THEN Throw(NotIterable)
  ELSE
    LET afterChunk(offsets) ==
          IF offsets = {}
          THEN leadingOverChunks(b, tt, a, bIdx, maxPadding, yielded, k + 1, maxOffset)
          ELSE IF SetMax(offsets) - maxPadding >= yielded[k].minY
          THEN Ok(Max(maxOffset, SetMax(offsets)))
          ELSE leadingOverChunks(b, tt, a, bIdx, maxPadding, yielded, k + 1,
                                 Max(maxOffset, SetMax(offsets)))
    IN afterChunk(offsetsOnB(b, tt, a, bIdx, yielded[k].indices))

\* The loop over the indices of region bRegion (lines 36-93).
RECURSIVE leadingFrom(_, _, _, _, _, _)
leadingFrom(b, tt, a, bIdx, end, maxOffset) ==
  IF ~(bIdx < end) THEN Ok(maxOffset)
  ELSE IF isNumber(b, bIdx) THEN leadingFrom(b, tt, a, bIdx + 1, end, maxOffset)
  ELSE
    Bind(getMaxPadding(tt, bIdx),
         LAMBDA maxPadding :
           Bind(leadingOverChunks(b, tt, a, bIdx, maxPadding, iterChunks(b), 1,
                                  maxOffset),
                LAMBDA reached : leadingFrom(b, tt, a, bIdx + 1, end, reached)))

leading(b, tt, a, bRegion) ==
  IF a = EMPTY \/ bRegion = EMPTY THEN Ok(0)
  ELSE leadingFrom(b, tt, a, bRegion.range.begin, bRegion.range.end, 0)

leadOutPoint(region) == addVector(region.origin, region.advance)

\* The result is the line after the wrap and the backing after it.
wrapRegionWithAdvance(b, region, padding, translateWraps) ==
  IF translateWraps
  THEN Bind(translateRegion(b, region.region, Vec(padding, 0)),
            LAMBDA t :
              Ok([line |-> [region EXCEPT !.advance = add(@, Vec(2 * padding, 0))],
                  backing |-> t]))
  ELSE Ok([line |-> [region EXCEPT !.advance = add(@, Vec(2 * padding, 0)),
                                   !.origin = addVector(@, Vec(-padding, 0))],
           backing |-> b])

RECURSIVE wrapLayout(_, _, _, _)
wrapLayout(b, layoutLines, padding, translateWraps) ==
  IF layoutLines = <<>> THEN Ok([layout |-> <<>>, backing |-> b])
  ELSE
    Bind(wrapRegionWithAdvance(b, Head(layoutLines), padding, translateWraps),
         LAMBDA w :
           Bind(wrapLayout(w.backing, Tail(layoutLines), padding, translateWraps),
                LAMBDA rest :
                  Ok([layout |-> <<w.line>> \o rest.layout,
                      backing |-> rest.backing])))

joinRegionsWithAdvance(a, b) ==
  Bind(joinRegions(a.region, b.region),
       LAMBDA j : Ok(Line(j, a.origin, subPoints(leadOutPoint(b), a.origin))))

translateRegionWithAdvance(b, region, v) ==
  Bind(translateRegion(b, region.region, v),
       LAMBDA t :
         Ok([line |-> [region EXCEPT !.origin = addVector(@, v)], backing |-> t]))

\* extendH changes a in place; its early returns leave a as it is.
extendH(b, a, bLines) ==
  IF Len(a) = 0 \/ Len(bLines) = 0 THEN Ok([layout |-> a, backing |-> b])
  ELSE
    Bind(translateRegionWithAdvance(
           b, Head(bLines), subPoints(leadOutPoint(Last(a)), Head(bLines).origin)),
         LAMBDA t :
           Bind(joinRegionsWithAdvance(Last(a), t.line),
                LAMBDA j :
                  Ok([layout |-> ButLast(a) \o <<j>> \o Tail(bLines),
                      backing |-> t.backing])))

extendV(a, bLines) == a \o bLines

\* RocksLayout.layout's inner go: the lines of root and the backing after
\* its rectangles were pushed and moved.
RECURSIVE rocksGo(_, _, _, _)
rocksGo(root, b, tt, translateWraps) ==
  CASE root.type = "Atom" ->
         Bind(getMaxPadding(tt, root.stackRef.index),
              LAMBDA maxPadding :
                LET push(pushed) ==
                      IF ~(root.stackRef.index = pushed.index)
                      THEN Throw(AssertFailed)
                      ELSE Ok([layout |-> << Line(regionFromStackRef(root.stackRef),
                                                  Pt(0, 0),
                                                  Vec(width(root.rect), 0)) >>,
                               backing |-> pushed.backing])
                IN push(pushRect(b, root.rect, maxPadding)))
    [] root.type = "Spacer" ->
         LET push(pushed) ==
               IF ~(root.stackRef.index = pushed.index) THEN Throw(AssertFailed)
               ELSE Ok([layout |-> << Line(regionFromStackRef(root.stackRef),
                                           Pt(0, 0), Vec(root.width, 0)) >>,
                        backing |-> pushed.backing])
         IN push(pushSpacer(b, root.width))
    [] root.type = "JoinH" ->
         Bind(rocksGo(root.lhs, b, tt, translateWraps),
              LAMBDA l :
                Bind(rocksGo(root.rhs, l.backing, tt, translateWraps),
                     LAMBDA r : extendH(r.backing, l.layout, r.layout)))
    [] root.type = "JoinV" ->
         Bind(rocksGo(root.lhs, b, tt, translateWraps),
              LAMBDA l :
                Bind(rocksGo(root.rhs, l.backing, tt, translateWraps),
                     LAMBDA r :
                       Ok([layout |-> extendV(l.layout, r.layout),
                           backing |-> r.backing])))
    [] root.type = "Wrap" ->
         Bind(rocksGo(root.child, b, tt, translateWraps),
              LAMBDA c : wrapLayout(c.backing, c.layout, root.padding, translateWraps))

\* UnsimplifiedRocksLayoutResult.fragmentsInfo: the walk over the tree
\* with regions; the result holds the fragments and the line number
\* reached.
RECURSIVE rocksFragments(_, _, _)
rocksFragments(root, b, lineNo) ==
  CASE root.type = "Atom" ->
         IF isNumber(b, root.stackRef.index)
         THEN Throw("Found Spacer where Atom is expected")
         ELSE Ok([out |-> << [rect |-> getByIndex(b, root.stackRef.index),
                              lineNo |-> lineNo, text |-> root.text] >>,
                  lineNo |-> lineNo])
    [] root.type = "Spacer" -> Ok([out |-> <<>>, lineNo |-> lineNo])
    [] root.type \in {"JoinV", "JoinH"} ->
         Bind(rocksFragments(root.lhs, b, lineNo),
              LAMBDA l :
                Bind(rocksFragments(root.rhs, b,
                                    IF root.type = "JoinV"
                                    THEN l.lineNo + 1 ELSE l.lineNo),
                     LAMBDA r :
                       Ok([out |-> l.out \o r.out, lineNo |-> r.lineNo])))
    [] root.type = "Wrap" -> rocksFragments(root.child, b, lineNo)

regionOfLayoutTree(layoutTree) ==
  IF layoutTree.type \in {"Wrap", "JoinV", "JoinH"}
  THEN layoutTree.region
  ELSE regionFromStackRef(layoutTree.stackRef)

\* The rectangles iterRectsInRegion yields for the indices i..end-1.
RECURSIVE iterRectsFrom(_, _, _, _, _)
iterRectsFrom(b, tt, i, end, depth) ==
  IF ~(i < end) THEN <<>>
  ELSE (IF b.elements[i + 1].spacer THEN <<>>
        ELSE << inflate(b.elements[i + 1].rect, getPadding(tt, i, depth)) >>)
         \o iterRectsFrom(b, tt, i + 1, end, depth)

\* UnsimplifiedRocksLayoutResult.iterRectsInRegion, as the list it yields;
\* getPadding asserts that the cell exists.
iterRectsInRegion(b, tt, region) ==
  IF region = EMPTY THEN Ok(<<>>)
  ELSE IF \E i \in enumerateIndices(region) :
            ~b.elements[i + 1].spacer /\ ~cellExists(tt, i, region.depth)
  THEN Throw(AssertFailed)
  ELSE Ok(iterRectsFrom(b, tt, region.range.begin, region.range.end,
                        region.depth))

RECURSIVE unionAll(_, _)
unionAll(bbox, rects) ==
  IF rects = <<>> THEN bbox ELSE unionAll(union(bbox, Head(rects)), Tail(rects))

\* As boundingBox, but the union starts from the empty rectangle at the
\* origin instead of null.
boundingBoxFromOrigin(b, tt, layoutTree) ==
  Bind(iterRectsInRegion(b, tt, regionOfLayoutTree(layoutTree)),
       LAMBDA rects : Ok(unionAll(MkRect(0, 0, 0, 0), rects)))

\* UnsimplifiedRocksLayoutResult.boundingBox; None stands for null.
boundingBox(b, tt, layoutTree) ==
  Bind(iterRectsInRegion(b, tt, regionOfLayoutTree(layoutTree)),
       LAMBDA rects :
         Ok(IF rects = <<>> THEN None ELSE unionAll(Head(rects), Tail(rects))))

-----------------------------------------------------------------------------
(* Pebble layout, L1P (pebble-layout/layout.ts).  A region is a sequence   *)
(* of stacks; a stack carries its rectangle and its own cells, innermost   *)
(* wrap first.  The operators that share a name with the rocks layout      *)
(* carry the prefix pebble.                                                *)

Stack(rect, cells, text) ==
  [type |-> "Stack", rect |-> rect, cells |-> cells, text |-> text]
SpacerStack(w) == [type |-> "Spacer", width |-> w]

translateStack(stack, v) ==
  IF stack.type = "Stack" THEN [stack EXCEPT !.rect = translate(@, v)] ELSE stack

wrapStack(stack, uid, padding) ==
  IF stack.type = "Spacer" THEN stack
  ELSE IF Len(stack.cells) = 0
  THEN [stack EXCEPT !.cells = Append(@, [uid |-> uid, padding |-> padding])]
  ELSE
    LET top == Last(stack.cells)
    IN IF top.uid = uid
       THEN [stack EXCEPT !.cells[Len(stack.cells)].padding = @ + padding]
       ELSE [stack EXCEPT
               !.cells = Append(@, [uid |-> uid, padding |-> top.padding + padding])]

RECURSIVE pebbleSpaceBetweenFrom(_, _, _, _)
pebbleSpaceBetweenFrom(as, bs, aDepth, bDepth) ==
  IF aDepth = 0 /\ bDepth = 0 THEN <<0, 0>>
  ELSE IF aDepth = 0 THEN <<0, bs[bDepth].padding>>
  ELSE IF bDepth = 0 THEN <<as[aDepth].padding, 0>>
  ELSE IF as[aDepth].uid # bs[bDepth].uid
  THEN <<as[aDepth].padding, bs[bDepth].padding>>
  ELSE pebbleSpaceBetweenFrom(as, bs, aDepth - 1, bDepth - 1)

pebbleSpaceBetweenNone(as, bs) == <<0, 0>>

pebbleSpaceBetween(as, bs) == pebbleSpaceBetweenFrom(as, bs, Len(as), Len(bs))

leadingRect(a, b) == IF horizontallyOverlap(a, b) THEN a.bottom - b.top ELSE 0

leadingStack(a, b) ==
  IF a.type # "Stack" \/ b.type # "Stack" THEN 0
  ELSE
    LET sp == pebbleSpaceBetween(a.cells, b.cells)
    IN leadingRect(inflate(a.rect, sp[1]), inflate(b.rect, sp[2]))

pebbleTranslateRegion(region, v) ==
  [i \in 1..Len(region) |-> translateStack(region[i], v)]

wrapRegion(region, uid, padding) ==
  [i \in 1..Len(region) |-> wrapStack(region[i], uid, padding)]

leadingRegion(a, b) ==
  SetMax({0} \cup { leadingStack(a[i], b[j]) : i \in 1..Len(a), j \in 1..Len(b) })

pebbleLeadOutAtOrigin(region) == region.origin

pebbleLeadOutPoint(region) == addVector(region.origin, region.advance)

pebbleTranslateRegionWithAdvance(region, v) ==
  [region EXCEPT !.origin = addVector(@, v),
                 !.region = pebbleTranslateRegion(@, v)]

pebbleWrapRegionWithAdvance(region, uid, padding, translateWraps) ==
  LET wrapped == [region EXCEPT !.advance = add(@, Vec(2 * padding, 0)),
                                !.region = wrapRegion(@, uid, padding)]
  IN IF translateWraps
     THEN [wrapped EXCEPT !.region = pebbleTranslateRegion(@, Vec(padding, 0))]
     ELSE [wrapped EXCEPT !.origin = addVector(@, Vec(-padding, 0))]

extendRegionWithAdvance(a, b) ==
  [a EXCEPT !.advance = subPoints(pebbleLeadOutPoint(b), a.origin),
            !.region = @ \o b.region]

pebbleWrapLayout(layoutLines, uid, padding, translateWraps) ==
  [i \in 1..Len(layoutLines) |->
     pebbleWrapRegionWithAdvance(layoutLines[i], uid, padding, translateWraps)]

pebbleExtendH(a, b) ==
  IF Len(a) = 0 \/ Len(b) = 0 THEN a
  ELSE
    LET lastOfA == Last(a)
        v == subPoints(pebbleLeadOutPoint(lastOfA), Head(b).origin)
        firstOfB == pebbleTranslateRegionWithAdvance(Head(b), v)
    IN ButLast(a) \o <<extendRegionWithAdvance(lastOfA, firstOfB)>> \o Tail(b)

pebbleExtendVOneLine(a, b) == pebbleExtendH(a, b)

pebbleExtendV(a, b) == a \o b

layoutFromRect(r, text) ==
  << Line(<<Stack(r, <<>>, text)>>, Pt(0, 0), Vec(width(r), 0)) >>

layoutFromSpacer(w) ==
  << Line(<<SpacerStack(w)>>, Pt(0, 0), Vec(w, 0)) >>

\* PebbleLayout.layout's inner go; nextUid is threaded through the walk.
RECURSIVE pebbleGo(_, _, _)
pebbleGo(root, nextUid, translateWraps) ==
  CASE root.type = "Atom" ->
         [layout |-> layoutFromRect(root.rect, root.text), nextUid |-> nextUid]
    [] root.type = "Spacer" ->
         [layout |-> layoutFromSpacer(root.width), nextUid |-> nextUid]
    [] root.type = "JoinH" ->
         LET l == pebbleGo(root.lhs, nextUid, translateWraps)
             r == pebbleGo(root.rhs, l.nextUid, translateWraps)
         IN [layout |-> pebbleExtendH(l.layout, r.layout), nextUid |-> r.nextUid]
    [] root.type = "JoinV" ->
         LET l == pebbleGo(root.lhs, nextUid, translateWraps)
             r == pebbleGo(root.rhs, l.nextUid, translateWraps)
         IN [layout |-> pebbleExtendV(l.layout, r.layout), nextUid |-> r.nextUid]
    [] root.type = "Wrap" ->
         LET c == pebbleGo(root.child, nextUid + 1, translateWraps)
         IN [layout |-> pebbleWrapLayout(c.layout, nextUid, root.padding,
                                         translateWraps),
             nextUid |-> c.nextUid]

\* PebbleLayoutResult.fragmentsInfo: the stacks of each line, in order.
pebbleFragmentsOfLine(region, lineNo) ==
  LET F[i \in 0..Len(region)] ==
        IF i = 0 THEN <<>>
        ELSE IF region[i].type = "Spacer" THEN F[i - 1]
        ELSE Append(F[i - 1], [rect |-> region[i].rect, lineNo |-> lineNo,
                               text |-> region[i].text])
  IN F[Len(region)]

pebbleFragments(layoutLines) ==
  Concat([i \in 1..Len(layoutLines) |->
            pebbleFragmentsOfLine(layoutLines[i].region, i - 1)])

-----------------------------------------------------------------------------
(* Blocks layout (blocks-layout/layout.ts).                                *)

\* goRel: the tree with relative offsets and the rectangle of root.
RECURSIVE goRel(_)
goRel(root) ==
  CASE root.type \in {"JoinH", "JoinV"} ->
         LET l == goRel(root.lhs)
             r == goRel(root.rhs)
             ofs == IF root.type = "JoinH"
                    THEN Vec(l.rect.right - r.rect.left, 0)
                    ELSE Vec(0, l.rect.bottom - r.rect.top)
         IN [tree |-> [type |-> root.type, lhs |-> l.tree, rhs |-> r.tree,
                       rhsRelOfs |-> ofs],
             rect |-> union(l.rect, translate(r.rect, ofs))]
    [] root.type = "Atom" -> [tree |-> root, rect |-> root.rect]
    [] root.type = "Spacer" ->
         [tree |-> root, rect |-> MkRect(0, root.width, 0, 0)]
    [] root.type = "Wrap" ->
         LET c == goRel(root.child)
             ofs == Vec(root.padding, root.padding)
             relRect == inflate(translate(c.rect, ofs), root.padding)
         IN [tree |-> [root EXCEPT !.child = c.tree] @@
                      [childRelOfs |-> ofs, relRect |-> relRect],
             rect |-> relRect]

RECURSIVE goFinalize(_, _)
goFinalize(root, ofs) ==
  CASE root.type \in {"JoinH", "JoinV"} ->
         [root EXCEPT !.lhs = goFinalize(root.lhs, ofs),
                      !.rhs = goFinalize(root.rhs, add(ofs, root.rhsRelOfs))]
    [] root.type = "Atom" -> [root EXCEPT !.rect = translate(root.rect, ofs)]
    [] root.type = "Spacer" -> root
    [] root.type = "Wrap" ->
         [root EXCEPT !.child = goFinalize(root.child, add(ofs, root.childRelOfs))]
           @@ [rect |-> translate(root.relRect, ofs)]

\* BlocksLayoutResult.fragmentsInfo.
RECURSIVE blocksFragments(_, _)
blocksFragments(root, lineNo) ==
  CASE root.type \in {"JoinH", "JoinV"} ->
         LET l == blocksFragments(root.lhs, lineNo)
             r == blocksFragments(root.rhs, IF root.type = "JoinV"
                                            THEN l.lineNo + 1 ELSE l.lineNo)
         IN [out |-> l.out \o r.out, lineNo |-> r.lineNo]
    [] root.type = "Atom" ->
         [out |-> << [text |-> root.text, rect |-> root.rect, lineNo |-> lineNo] >>,
          lineNo |-> lineNo]
    [] root.type = "Spacer" -> [out |-> <<>>, lineNo |-> lineNo]
    [] root.type = "Wrap" -> blocksFragments(root.child, lineNo)

-----------------------------------------------------------------------------
(* S-Blocks layout (s-blocks-layout/layout.ts): buildFragmentVector and    *)
(* fragmentsInfo.  The passes between them place the rectangles with an    *)
(* interval tree from another package and are not part of this model; the  *)
(* index and the line of a fragment are fixed by buildFragmentVector.      *)

HGadget(type, uid, w) == [type |-> type, uid |-> uid, width |-> w]

hasHGadgetWithUID(uid, gadgets) ==
  \E i \in 1..Len(gadgets) : gadgets[i].uid = uid

insertBeginHGadget(fv, index, gadget) ==
  IF ~hasHGadgetWithUID(gadget.uid, fv[index + 1].gadgetsBefore)
  THEN [fv EXCEPT ![index + 1].gadgetsBefore = <<gadget>> \o @]
  ELSE fv

insertEndHGadget(fv, index, gadget) ==
  IF ~hasHGadgetWithUID(gadget.uid, fv[index + 1].gadgetsAfter)
  THEN [fv EXCEPT ![index + 1].gadgetsAfter = Append(@, gadget)]
  ELSE fv

\* The loop of the Node case over the fragments beginIndex .. endIndex - 1;
\* pending is insertAtBeginning, None for null.
RECURSIVE insertLineGadgets(_, _, _, _, _, _)
insertLineGadgets(fv, i, endIndex, padding, uid, pending) ==
  IF ~(i < endIndex) THEN fv
  ELSE
    LET thisFragment == fv[i + 1]
        isLastFragmentOnLine ==
          \/ i + 2 \notin DOMAIN fv
          \/ thisFragment.line # fv[i + 2].line
        insertNow == /\ pending # None
                     /\ (thisFragment.content.type = "Atom" \/ isLastFragmentOnLine)
        fv1 == IF insertNow THEN insertBeginHGadget(fv, i, pending) ELSE fv
        pending1 == IF insertNow THEN None ELSE pending
        fv2 == IF isLastFragmentOnLine
               THEN insertEndHGadget(fv1, i, HGadget("EndOfLine", uid, padding))
               ELSE fv1
        pending2 == IF isLastFragmentOnLine
                    THEN HGadget("BeginOfLine", uid, padding) ELSE pending1
    IN insertLineGadgets(fv2, i + 1, endIndex, padding, uid, pending2)

\* buildFragmentVector's inner go.  st holds nextUid, line, fragmentVector
\* and lineToFragmentRange.
RECURSIVE sblocksGo(_, _), sblocksChildren(_, _)
sblocksGo(root, st) ==
  CASE root.type = "Newline" ->
         LET n == Len(st.fragmentVector)
             k == Len(st.lineToFragmentRange)
         IN [tree |-> root,
             st |-> [st EXCEPT
                       !.lineToFragmentRange =
                          Append([@ EXCEPT ![k].end = n], [begin |-> n, end |-> n]),
                       !.line = @ + 1]]
    [] root.type = "Atom" ->
         [tree |-> root @@ [index |-> Len(st.fragmentVector), line |-> st.line],
          st |-> [st EXCEPT !.fragmentVector =
                    Append(@, [gadgetsBefore |-> <<>>,
                               content |-> [type |-> "Atom", rect |-> root.rect],
                               gadgetsAfter |-> <<>>,
                               line |-> st.line])]]
    [] root.type = "Spacer" ->
         [tree |-> root @@ [index |-> Len(st.fragmentVector), line |-> st.line],
          st |-> [st EXCEPT !.fragmentVector =
                    Append(@, [gadgetsBefore |-> <<>>,
                               content |-> [type |-> "Spacer", width |-> root.width],
                               gadgetsAfter |-> <<>>,
                               line |-> st.line])]]
    [] root.type = "Node" ->
         LET uid == st.nextUid
             beginLine == st.line
             beginIndex == Len(st.fragmentVector)
             c == sblocksChildren(root.children, [st EXCEPT !.nextUid = uid + 1])
             endLine == c.st.line + 1
             endIndex == Len(c.st.fragmentVector)
             fv1 == insertLineGadgets(c.st.fragmentVector, beginIndex, endIndex,
                                      root.padding, uid, None)
             fv2 == IF beginIndex # endIndex
                    THEN insertEndHGadget(
                           insertBeginHGadget(fv1, beginIndex,
                                              HGadget("BeginOfNode", uid, root.padding)),
                           endIndex - 1, HGadget("EndOfNode", uid, root.padding))
                    ELSE fv1
         IN [tree |-> [root EXCEPT !.children = c.trees] @@
                      [fragmentRange |-> [begin |-> beginIndex, end |-> endIndex],
                       lineRange |-> [begin |-> beginLine, end |-> endLine],
                       uid |-> uid],
             st |-> [c.st EXCEPT !.fragmentVector = fv2]]
sblocksChildren(children, st) ==
  IF children = <<>> THEN [trees |-> <<>>, st |-> st]
  ELSE LET h == sblocksGo(Head(children), st)
           t == sblocksChildren(Tail(children), h.st)
       IN [trees |-> <<h.tree>> \o t.trees, st |-> t.st]

buildFragmentVector(layoutTree) ==
  LET g == sblocksGo(layoutTree,
                     [nextUid |-> 0, line |-> 0, fragmentVector |-> <<>>,
                      lineToFragmentRange |-> << [begin |-> 0, end |-> 0] >>])
      k == Len(g.st.lineToFragmentRange)
  IN [layoutTree |-> g.tree,
      fragmentVector |-> g.st.fragmentVector,
      lineToFragmentRange |->
        [g.st.lineToFragmentRange EXCEPT ![k].end = Len(g.st.fragmentVector)]]

\* eachAtom (layout-tree.ts): a depth-first walk with an explicit stack,
\* whose top is the last element.
RECURSIVE eachAtomLoop(_, _)
eachAtomLoop(stack, out) ==
  IF ~(Len(stack) > 0) THEN out
  ELSE
    LET top == Last(stack)
        rest == ButLast(stack)
    IN IF top.type = "Node"
       THEN eachAtomLoop(rest \o Reverse(top.children), out)
       ELSE IF top.type = "Atom" THEN eachAtomLoop(rest, Append(out, top))
       ELSE eachAtomLoop(rest, out)

eachAtom(tree) == eachAtomLoop(<<tree>>, <<>>)

\* SBlocksLayoutResult.fragmentsInfo, without the rectangles.
sblocksFragments(layoutTree) ==
  LET atoms == eachAtom(layoutTree)
  IN [i \in 1..Len(atoms) |-> [lineNo |-> atoms[i].line, text |-> atoms[i].text]]

-----------------------------------------------------------------------------
(* Bounds and inputs.                                                      *)

\* Largest input tree (leaves plus nodes) handed to reassocLayoutTree alone.
ReassocSize == 6

\* The two sentinels the callers supply: the tests pass an Atom without
\* text, the layouts a Spacer of width 0.
EmptyAtom == [type |-> "Atom", text |-> ""]
EmptySpacer == [type |-> "Spacer", width |-> 0, text |-> ""]

ReassocLeaves ==
  { [type |-> "Atom", text |-> "a"], [type |-> "Atom", text |-> "b"], Newline }
ReassocDecos == { [padding |-> 0], [padding |-> 4, sty |-> "red"] }
PlainDecos == { [padding |-> 0] }
\* Unstyled trees up to the bound, styled and unstyled ones up to one less.
ReassocInputs ==
  TreesUpTo(ReassocSize, ReassocLeaves, PlainDecos)
    \cup TreesUpTo(ReassocSize - 1, ReassocLeaves, ReassocDecos)

-----------------------------------------------------------------------------
(* The state before an entry point has run.                                *)

NoSettings == [translateWraps |-> TRUE, idealLeading |-> 0]
NoTimetable == [columns |-> <<>>, maxDepth |-> 0]
NoBacking == newBacking
NoLoop == [i |-> 0, lastLineOffset |-> 0, done |-> EMPTY]

Idle ==
  /\ rlt = None
  /\ timetable = NoTimetable
  /\ ltWithRegions = None
  /\ backing = NoBacking
  /\ layout = <<>>
  /\ loop = NoLoop
  /\ result = None
  /\ error = NoError
  /\ query = None

-----------------------------------------------------------------------------
(* reassocLayoutTree called on its own, as the tests call it.              *)

InitReassoc ==
  /\ input \in ReassocInputs
  /\ algo \in {"reassoc"}
  /\ settings = [empty |-> EmptyAtom] \/ settings = [empty |-> EmptySpacer]
  /\ pc = "start"
  /\ Idle

Reassociate ==
  /\ pc = "start"
  /\ algo = "reassoc"
  /\ LET res == reassocLayoutTree(input, settings.empty)
     IN IF res.ok
        THEN /\ rlt' = res.val
             /\ pc' = "reassociated"
             /\ error' = error
        ELSE /\ rlt' = rlt
             /\ pc' = "failed"
             /\ error' = res.msg
  /\ UNCHANGED <<input, algo, settings, timetable, ltWithRegions, backing,
                 layout, loop, result, query>>

NextReassoc == Reassociate

SpecReassoc == InitReassoc /\ [][NextReassoc]_vars

-----------------------------------------------------------------------------
(* Timetable.fromLayoutTree and spaceBetween called on a reassociated     *)
(* tree, as the timetable tests call them.                                 *)

\* Largest reassociated tree (leaves, joins and wraps) given to the
\* timetable.
TimetableSize == 7

TimetableLeaves == { [type |-> "Atom", text |-> "a"], Spacer(5) }
TimetablePaddings == { 2, 4 }

RECURSIVE RltOfSize(_, _, _)
RltOfSize(n, Leaves, Paddings) ==
  IF n = 1 THEN Leaves
  ELSE { Wrap(c, p) : c \in RltOfSize(n - 1, Leaves, Paddings), p \in Paddings }
         \cup UNION { UNION { { JoinH(l, r), JoinV(l, r) } :
                                l \in RltOfSize(k, Leaves, Paddings),
                                r \in RltOfSize(n - 1 - k, Leaves, Paddings) } :
                      k \in 1..(n - 2) }
RltUpTo(n, Leaves, Paddings) ==
  UNION { RltOfSize(k, Leaves, Paddings) : k \in 1..n }

InitTimetable ==
  /\ input = None
  /\ algo \in {"timetable"}
  /\ settings = NoSettings
  /\ pc = "start"
  /\ rlt \in RltUpTo(TimetableSize, TimetableLeaves, TimetablePaddings)
  /\ timetable = NoTimetable
  /\ ltWithRegions = None
  /\ backing = NoBacking
  /\ layout = <<>>
  /\ loop = NoLoop
  /\ result = None
  /\ error = NoError
  /\ query = None

FromLayoutTree ==
  /\ pc = "start"
  /\ algo = "timetable"
  /\ LET r == fromLayoutTree(rlt)
     IN /\ timetable' = r.timetable
        /\ ltWithRegions' = r.withRegions
  /\ pc' = "timetable"
  /\ UNCHANGED <<input, algo, settings, rlt, backing, layout, loop, result,
                 error, query>>

SpaceBetween(aIdx, bIdx) ==
  /\ pc = "timetable"
  /\ algo = "timetable"
  /\ query' = [op |-> "spaceBetween", a |-> aIdx, b |-> bIdx,
               result |-> spaceBetween(timetable, aIdx, bIdx)]
  /\ UNCHANGED <<input, algo, settings, pc, rlt, timetable, ltWithRegions,
                 backing, layout, loop, result, error>>

NextTimetable ==
  \/ FromLayoutTree
  \/ \E aIdx \in 0..(Len(timetable.columns) - 1),
        bIdx \in 0..(Len(timetable.columns) - 1) : SpaceBetween(aIdx, bIdx)

SpecTimetable == InitTimetable /\ [][NextTimetable]_vars

\* The leaves of a reassociated tree in column order, each with the set of
\* Wraps above it; a Wrap is named by its position in the tree.
RECURSIVE LeafWraps(_, _, _)
LeafWraps(t, path, ws) ==
  CASE t.type \in {"Atom", "Spacer"} -> << [type |-> t.type, wraps |-> ws] >>
    [] t.type \in {"JoinH", "JoinV"} ->
         LeafWraps(t.lhs, path \o <<1>>, ws) \o LeafWraps(t.rhs, path \o <<2>>, ws)
    [] t.type = "Wrap" ->
         LeafWraps(t.child, path \o <<0>>,
                   ws \cup { [at |-> path, padding |-> t.padding] })

RECURSIVE SumPadding(_)
SumPadding(ws) ==
  IF ws = {} THEN 0
  ELSE LET w == CHOOSE w \in ws : TRUE
       IN w.padding + SumPadding(ws \ {w})

\* C5: for two Atom columns a and b, spaceBetween returns the summed
\* paddings of the Wraps above a but not above b, and of those above b but
\* not above a, whatever fill cells the two columns hold.
C5_SharedAncestorLaw ==
  (pc = "timetable" /\ query # None) =>
    LET leaves == LeafWraps(rlt, <<>>, {})
        la == leaves[query.a + 1]
        lb == leaves[query.b + 1]
    IN (la.type = "Atom" /\ lb.type = "Atom") =>
         query.result = Ok(<<SumPadding(la.wraps \ lb.wraps),
                             SumPadding(lb.wraps \ la.wraps)>>)

\* Two atoms under a shared Wrap, one of them under two more Wraps and the
\* other under one, so that the shorter column was filled.
C5_Witness ==
  /\ pc = "timetable"
  /\ query # None
  /\ query.result = Ok(<<2, 6>>)
  /\ timetable.maxDepth = 3
  /\ LET leaves == LeafWraps(rlt, <<>>, {})
     IN /\ leaves[query.a + 1].type = "Atom"
        /\ leaves[query.b + 1].type = "Atom"
        /\ Cardinality(leaves[query.a + 1].wraps \cap leaves[query.b + 1].wraps) = 1
        /\ Cardinality(leaves[query.a + 1].wraps) = 2
        /\ Cardinality(leaves[query.b + 1].wraps) = 3

-----------------------------------------------------------------------------
(* The layout algorithms run on a measured tree.  L1S+ runs the L1S        *)
(* layout first and answers fragmentsInfo from its result, so L1S stands   *)
(* for both here.                                                          *)

\* Largest measured tree with the full choice of leaves and paddings.
LayoutSize == 4
\* Largest measured tree of atoms and Newlines under one padding.
LinesSize == 6

AtomA == Atom("a", MkRect(0, 10, 0, 10))
AtomB == Atom("b", MkRect(0, 6, -8, 2))

LayoutLeaves == { AtomA, AtomB, Spacer(3), Newline }
LayoutDecos == { [padding |-> 2], [padding |-> 4] }
LinesLeaves == { AtomA, Newline }
LinesDecos == { [padding |-> 2] }

\* Two atoms on two lines under two nested nodes of paddings 2 and 4.
ScenarioRects == { MkRect(0, 10, 0, 10), MkRect(0, 6, -8, 2) }
ScenarioInputs ==
  { Node(<< Node(<< Atom("x", rx), Newline, Atom("y", ry) >>, 2) >>, 4) :
      rx \in ScenarioRects, ry \in ScenarioRects }

\* One measured atom under a node without padding.
SingleAtomRect == MkRect(0, 10, -8, 2)
SingleAtom == Node(<< Atom("ab", SingleAtomRect) >>, 0)

LayoutInputs ==
  TreesUpTo(LayoutSize, LayoutLeaves, LayoutDecos)
    \cup TreesUpTo(LinesSize, LinesLeaves, LinesDecos)
    \cup ScenarioInputs
    \cup { SingleAtom }

IdealLeadings == { 0, 15 }

Algorithms == { "L1S", "L1P", "Blocks", "S-Blocks" }

\* The algorithms that run RocksLayout.layout: L1S+ runs it first.
RocksAlgorithms == { "L1S", "L1S+" }

SettingsOf(a) ==
  IF a \in {"L1S", "L1P"}
  THEN [translateWraps : BOOLEAN, idealLeading : IdealLeadings]
  ELSE { NoSettings }

InitLayout ==
  /\ input \in LayoutInputs
  /\ algo \in Algorithms
  /\ settings \in SettingsOf(algo)
  /\ pc = "start"
  /\ Idle

Fail(msg) ==
  /\ pc' = "failed"
  /\ error' = msg

\* RocksLayout.layout up to the line-stacking loop (lines 415-457).
rocksLayoutTree(layoutTree, translateWraps) ==
  Bind(reassocLayoutTree(layoutTree, EmptySpacer),
       LAMBDA r :
         LET walk(t) ==
               Bind(rocksGo(t.withRegions, newBacking, t.timetable, translateWraps),
                    LAMBDA g :
                      Ok([rlt |-> r, timetable |-> t.timetable,
                          ltWithRegions |-> t.withRegions,
                          backing |-> g.backing, layout |-> g.layout]))
         IN walk(fromLayoutTree(r)))

RocksLayoutTree ==
  /\ pc = "start"
  /\ algo \in RocksAlgorithms
  /\ \E r \in { rocksLayoutTree(input, settings.translateWraps) } :
       IF ~r.ok
       THEN /\ Fail(r.msg)
            /\ UNCHANGED <<rlt, timetable, ltWithRegions, backing, layout, loop>>
       ELSE /\ rlt' = r.val.rlt
            /\ timetable' = r.val.timetable
            /\ ltWithRegions' = r.val.ltWithRegions
            /\ backing' = r.val.backing
            /\ layout' = r.val.layout
            /\ loop' = [i |-> 0, lastLineOffset |-> 0, done |-> EMPTY]
            /\ pc' = "stacking"
            /\ error' = error
  /\ UNCHANGED <<input, algo, settings, result, query>>

\* One pass of the line-stacking loop of RocksLayout.layout (lines
\* 463-471) on the backing b: the backing and the loop state after it.
rocksStackLine(b, tt, lp, line, idealLeading) ==
  Bind(leading(b, tt, lp.done, line.region),
       LAMBDA currentLineOffset :
         LET put(adjustedOffset) ==
               Bind(translateRegion(b, line.region, Vec(0, adjustedOffset)),
                    LAMBDA moved :
                      Bind(joinRegions(lp.done, line.region),
                           LAMBDA joined :
                             Ok([backing |-> moved,
                                 loop |-> [i |-> lp.i + 1,
                                           lastLineOffset |-> adjustedOffset,
                                           done |-> joined]])))
         IN put(lp.lastLineOffset
                  + Max(currentLineOffset - lp.lastLineOffset, idealLeading)))

RocksStackLine ==
  /\ pc = "stacking"
  /\ algo \in RocksAlgorithms
  /\ loop.i < Len(layout)
  /\ \E r \in { rocksStackLine(backing, timetable, loop, layout[loop.i + 1],
                               settings.idealLeading) } :
       IF ~r.ok
       THEN /\ Fail(r.msg)
            /\ UNCHANGED <<backing, loop>>
       ELSE /\ backing' = r.val.backing
            /\ loop' = r.val.loop
            /\ UNCHANGED <<pc, error>>
  /\ UNCHANGED <<input, algo, settings, rlt, timetable, ltWithRegions, layout,
                 result, query>>

RocksReturn ==
  /\ pc = "stacking"
  /\ algo \in RocksAlgorithms
  /\ loop.i = Len(layout)
  /\ result' = [type |-> "UnsimplifiedRocksLayoutResult"]
  /\ pc' = "done"
  /\ UNCHANGED <<input, algo, settings, rlt, timetable, ltWithRegions, backing,
                 layout, loop, error, query>>

\* PebbleLayout.layout up to the line-stacking loop.
PebbleLayoutTree ==
  /\ pc = "start"
  /\ algo = "L1P"
  /\ LET r == reassocLayoutTree(input, EmptySpacer)
     IN IF ~r.ok
        THEN /\ Fail(r.msg)
             /\ UNCHANGED <<rlt, layout, loop>>
        ELSE /\ rlt' = r.val
             /\ layout' = pebbleGo(r.val, 0, settings.translateWraps).layout
             /\ loop' = [i |-> 0, lastLineOffset |-> 0, done |-> <<>>]
             /\ pc' = "stacking"
             /\ error' = error
  /\ UNCHANGED <<input, algo, settings, timetable, ltWithRegions, backing,
                 result, query>>

\* The pass of PebbleLayout.layout's loop with the line placed at
\* max(leading, idealLeading) below the previous one.
PebbleStackLineByLeading ==
  /\ pc = "stacking"
  /\ algo = "L1P"
  /\ loop.i < Len(layout)
  /\ LET line == layout[loop.i + 1]
         currentLineOffset == leadingRegion(loop.done, line.region)
         adjustedOffset == loop.lastLineOffset
                             + Max(currentLineOffset, settings.idealLeading)
         moved == pebbleTranslateRegion(line.region, Vec(0, adjustedOffset))
     IN /\ layout' = [layout EXCEPT ![loop.i + 1].region = moved]
        /\ loop' = [i |-> loop.i + 1, lastLineOffset |-> adjustedOffset,
                    done |-> loop.done \o moved]
  /\ UNCHANGED <<input, algo, settings, pc, rlt, timetable, ltWithRegions,
                 backing, result, error, query>>

\* One pass of the line-stacking loop of PebbleLayout.layout.
PebbleStackLine ==
  /\ pc = "stacking"
  /\ algo = "L1P"
  /\ loop.i < Len(layout)
  /\ LET line == layout[loop.i + 1]
         currentLineOffset == leadingRegion(loop.done, line.region)
         effectiveLeading == currentLineOffset - loop.lastLineOffset
         adjustedOffset == loop.lastLineOffset
                             + Max(effectiveLeading, settings.idealLeading)
         moved == pebbleTranslateRegion(line.region, Vec(0, adjustedOffset))
     IN /\ layout' = [layout EXCEPT ![loop.i + 1].region = moved]
        /\ loop' = [i |-> loop.i + 1, lastLineOffset |-> adjustedOffset,
                    done |-> loop.done \o moved]
  /\ UNCHANGED <<input, algo, settings, pc, rlt, timetable, ltWithRegions,
                 backing, result, error, query>>

PebbleReturn ==
  /\ pc = "stacking"
  /\ algo = "L1P"
  /\ loop.i = Len(layout)
  /\ result' = [type |-> "PebbleLayoutResult"]
  /\ pc' = "done"
  /\ UNCHANGED <<input, algo, settings, rlt, timetable, ltWithRegions, backing,
                 layout, loop, error, query>>

BlocksLayout ==
  /\ pc = "start"
  /\ algo = "Blocks"
  /\ LET r == reassocLayoutTree(input, EmptySpacer)
     IN IF ~r.ok
        THEN /\ Fail(r.msg)
             /\ UNCHANGED <<rlt, result>>
        ELSE /\ rlt' = r.val
             /\ result' = [type |-> "BlocksLayoutResult",
                           layoutTree |-> goFinalize(goRel(r.val).tree, Vec(0, 0))]
             /\ pc' = "done"
             /\ error' = error
  /\ UNCHANGED <<input, algo, settings, timetable, ltWithRegions, backing,
                 layout, loop, query>>

\* SBlocksLayout.layout: the fragment vector and the lines of the result.
SBlocksLayout ==
  /\ pc = "start"
  /\ algo = "S-Blocks"
  /\ result' = [type |-> "SBlocksLayoutResult",
                layoutTree |-> buildFragmentVector(input).layoutTree]
  /\ pc' = "done"
  /\ UNCHANGED <<input, algo, settings, rlt, timetable, ltWithRegions, backing,
                 layout, loop, error, query>>

\* PebbleLayoutResult.boundingBox: the union of the stacks' rectangles, each
\* inflated by the padding of its topmost cell; None stands for null.
RECURSIVE pebbleBoundingBoxFrom(_, _)
pebbleBoundingBoxFrom(bbox, stacks) ==
  IF stacks = <<>> THEN bbox
  ELSE IF Head(stacks).type = "Spacer"
  THEN pebbleBoundingBoxFrom(bbox, Tail(stacks))
  ELSE LET stack == Head(stacks)
           padding == IF Len(stack.cells) = 0 THEN 0 ELSE Last(stack.cells).padding
           rect == inflate(stack.rect, padding)
       IN pebbleBoundingBoxFrom(IF bbox = None THEN rect ELSE union(bbox, rect),
                                Tail(stacks))

pebbleBoundingBox(layoutLines) ==
  pebbleBoundingBoxFrom(None, Concat([k \in 1..Len(layoutLines) |->
                                        layoutLines[k].region]))

\* outermostRect of the Blocks layout, which is BlocksLayoutResult's
\* boundingBox; None stands for null.
RECURSIVE outermostRect(_)
outermostRect(layoutTree) ==
  CASE layoutTree.type \in {"JoinH", "JoinV"} ->
         IF outermostRect(layoutTree.lhs) # None
         THEN outermostRect(layoutTree.lhs)
         ELSE outermostRect(layoutTree.rhs)
    [] layoutTree.type = "Atom" -> layoutTree.rect
    [] layoutTree.type = "Spacer" -> None
    [] layoutTree.type = "Wrap" -> layoutTree.rect

\* The algorithms whose result's boundingBox() is modelled.
BoxedAlgorithms == { "L1S", "L1P", "Blocks" }

\* boundingBox() called on the result of a layout.
BoundingBox ==
  /\ pc = "done"
  /\ query = None
  /\ algo \in BoxedAlgorithms
  /\ query' = [op |-> "boundingBox",
               result |->
                 CASE algo = "L1S" -> boundingBox(backing, timetable, ltWithRegions)
                   [] algo = "L1P" -> Ok(pebbleBoundingBox(layout))
                   [] algo = "Blocks" -> Ok(outermostRect(result.layoutTree))]
  /\ UNCHANGED <<input, algo, settings, pc, rlt, timetable, ltWithRegions,
                 backing, layout, loop, result, error>>

\* fragmentsInfo() called on the result of a layout.
FragmentsInfo ==
  /\ pc = "done"
  /\ query = None
  /\ query' = [op |-> "fragmentsInfo",
               result |->
                 CASE algo = "L1S" ->
                        LET f == rocksFragments(ltWithRegions, backing, 0)
                        IN IF f.ok THEN Ok(f.val.out) ELSE f
                   [] algo = "L1P" -> Ok(pebbleFragments(layout))
                   [] algo = "Blocks" -> Ok(blocksFragments(result.layoutTree, 0).out)
                   [] algo = "S-Blocks" -> Ok(sblocksFragments(result.layoutTree))]
  /\ UNCHANGED <<input, algo, settings, pc, rlt, timetable, ltWithRegions,
                 backing, layout, loop, result, error>>

NextLayout ==
  \/ RocksLayoutTree
  \/ RocksStackLine
  \/ RocksReturn
  \/ PebbleLayoutTree
  \/ PebbleStackLine
  \/ PebbleReturn
  \/ BlocksLayout
  \/ SBlocksLayout
  \/ FragmentsInfo
  \/ BoundingBox

SpecLayout == InitLayout /\ [][NextLayout]_vars

-----------------------------------------------------------------------------
(* Reading a reassociated tree back: rows, operands and the input's runs.  *)

\* The operands of a row, left to right, however its JoinH's nest.
RECURSIVE RowOperands(_)
RowOperands(t) ==
  IF t.type = "JoinH" THEN RowOperands(t.lhs) \o RowOperands(t.rhs) ELSE <<t>>

\* The rows under a Wrap, top to bottom, however its JoinV's nest.
RECURSIVE RowsOf(_)
RowsOf(t) ==
  IF t.type = "JoinV" THEN RowsOf(t.lhs) \o RowsOf(t.rhs) ELSE <<t>>

\* A row is a left-nested chain of JoinH whose right operands are
\* single elements; it holds no JoinV outside a nested Wrap.
RECURSIVE IsRow(_)
IsRow(t) ==
  CASE t.type = "JoinV" -> FALSE
    [] t.type = "JoinH" -> IsRow(t.lhs) /\ t.rhs.type \notin {"JoinH", "JoinV"}
    [] OTHER -> TRUE

\* A column of rows is a left-nested chain of JoinV whose right operands
\* are rows.
RECURSIVE IsRows(_)
IsRows(t) ==
  IF t.type = "JoinV" THEN IsRows(t.lhs) /\ IsRow(t.rhs) ELSE IsRow(t)

RECURSIVE WellShaped(_)
WellShaped(t) ==
  CASE t.type = "Wrap" ->
         /\ IsRows(t.child)
         /\ \A r \in 1..Len(RowsOf(t.child)) :
              \A o \in 1..Len(RowOperands(RowsOf(t.child)[r])) :
                WellShaped(RowOperands(RowsOf(t.child)[r])[o])
    [] t.type \in {"JoinH", "JoinV"} -> FALSE
    [] OTHER -> TRUE

\* The children of a Node cut at its Newlines: N Newlines give N + 1 runs.
RECURSIVE Runs(_)
Runs(children) ==
  IF children = <<>> THEN << <<>> >>
  ELSE LET rest == Runs(Tail(children))
       IN IF Head(children).type = "Newline"
          THEN << <<>> >> \o rest
          ELSE << <<Head(children)>> \o Head(rest) >> \o Tail(rest)

Decoration(t) ==
  IF "sty" \in DOMAIN t THEN [padding |-> t.padding, sty |-> t.sty]
  ELSE [padding |-> t.padding]

\* Input and output brought to one form: a decoration and its rows of
\* operands.  A row holding only the sentinel reads as an empty row.
RECURSIVE RowFormIn(_)
RowFormIn(t) ==
  IF t.type = "Node"
  THEN [deco |-> Decoration(t),
        rows |-> [r \in 1..Len(Runs(t.children)) |->
                   [o \in 1..Len(Runs(t.children)[r]) |->
                     RowFormIn(Runs(t.children)[r][o])]]]
  ELSE t

RECURSIVE RowFormOut(_, _)
RowFormOut(t, empty) ==
  IF t.type = "Wrap"
  THEN [deco |-> Decoration(t),
        rows |-> [r \in 1..Len(RowsOf(t.child)) |->
                   LET ops == RowOperands(RowsOf(t.child)[r])
                   IN IF ops = <<empty>> THEN <<>>
                      ELSE [o \in 1..Len(ops) |-> RowFormOut(ops[o], empty)]]]
  ELSE t

\* unparse: a Wrap back to a Node whose children are its rows' operands
\* with a Newline between rows.
RECURSIVE Unparse(_), UnparseRows(_)
Unparse(t) ==
  IF t.type = "Wrap"
  THEN Decorate(UnparseRows(t.child), Decoration(t))
  ELSE t
UnparseRows(t) ==
  CASE t.type = "JoinV" -> UnparseRows(t.lhs) \o <<Newline>> \o UnparseRows(t.rhs)
    [] t.type = "JoinH" -> UnparseRows(t.lhs) \o UnparseRows(t.rhs)
    [] OTHER -> <<Unparse(t)>>

\* A tree without the leaves equal to the sentinel.
RECURSIVE StripEmpty(_, _), StripEmptySeq(_, _)
StripEmpty(t, empty) ==
  IF t.type = "Node"
  THEN Decorate(StripEmptySeq(t.children, empty), Decoration(t))
  ELSE t
StripEmptySeq(ts, empty) ==
  IF ts = <<>> THEN <<>>
  ELSE IF Head(ts) = empty THEN StripEmptySeq(Tail(ts), empty)
  ELSE <<StripEmpty(Head(ts), empty)>> \o StripEmptySeq(Tail(ts), empty)

\* Nodes of the input and Wraps of the output, parents before children.
RECURSIVE NodesOf(_), NodesOfSeq(_)
NodesOf(t) ==
  IF t.type = "Node" THEN <<t>> \o NodesOfSeq(t.children) ELSE <<>>
NodesOfSeq(ts) ==
  IF ts = <<>> THEN <<>> ELSE NodesOf(Head(ts)) \o NodesOfSeq(Tail(ts))

RECURSIVE WrapsOf(_)
WrapsOf(t) ==
  CASE t.type = "Wrap" -> <<t>> \o WrapsOf(t.child)
    [] t.type \in {"JoinH", "JoinV"} -> WrapsOf(t.lhs) \o WrapsOf(t.rhs)
    [] OTHER -> <<>>

\* The JoinV's a Wrap owns: those not inside a nested Wrap.
RECURSIVE OwnJoinV(_)
OwnJoinV(t) ==
  CASE t.type = "JoinV" -> 1 + OwnJoinV(t.lhs) + OwnJoinV(t.rhs)
    [] t.type = "JoinH" -> OwnJoinV(t.lhs) + OwnJoinV(t.rhs)
    [] OTHER -> 0

RECURSIVE CountNewlines(_)
CountNewlines(children) ==
  IF children = <<>> THEN 0
  ELSE (IF Head(children).type = "Newline" THEN 1 ELSE 0)
         + CountNewlines(Tail(children))

-----------------------------------------------------------------------------
(* Claims about reassociation.                                             *)

\* C7: in a reassociated tree every Wrap holds a left-nested chain of JoinV
\* whose operands are the rows, each row a left-nested chain of JoinH over
\* the run of siblings between two Newlines, in order; no JoinV lies under
\* a JoinH of the same Node.
C7_Precedence ==
  pc = "reassociated" =>
    /\ WellShaped(rlt)
    /\ RowFormOut(rlt, settings.empty) = RowFormIn(input)

C7_Witness ==
  /\ pc = "reassociated"
  /\ input.type = "Node"
  /\ Len(input.children) = 5
  /\ input.children[2].type = "Newline"
  /\ input.children[4].type = "Newline"
  /\ \A i \in {1, 3, 5} : input.children[i].type = "Atom"
  /\ rlt.child = JoinV(JoinV(input.children[1], input.children[3]),
                       input.children[5])

\* C8: a Node with N Newlines becomes a Wrap with exactly N JoinV's and
\* N + 1 rows, and a row is the sentinel exactly where the run between two
\* Newlines (or before the first, or after the last) is empty.
C8_Sentinels ==
  pc = "reassociated" =>
    LET ns == NodesOf(input)
        ws == WrapsOf(rlt)
    IN /\ Len(ws) = Len(ns)
       /\ \A i \in 1..Len(ns) :
            LET N == CountNewlines(ns[i].children)
                rows == RowsOf(ws[i].child)
            IN /\ OwnJoinV(ws[i].child) = N
               /\ Len(rows) = N + 1
               /\ N >= 1 =>
                    \A r \in 1..(N + 1) :
                      (Runs(ns[i].children)[r] = <<>>)
                        <=> (rows[r] = settings.empty)

C8_Witness ==
  /\ pc = "reassociated"
  /\ input.type = "Node"
  /\ Len(input.children) = 3
  /\ \A i \in 1..3 : input.children[i].type = "Newline"
  /\ OwnJoinV(rlt.child) = 3
  /\ RowsOf(rlt.child) = <<settings.empty, settings.empty, settings.empty,
                           settings.empty>>

\* C9: reading the reassociated tree back (a Newline between rows, a Node
\* for each Wrap with its padding and style) and dropping the sentinels
\* gives the input tree.
C9_RoundTrip ==
  pc = "reassociated" =>
    StripEmpty(Unparse(rlt), settings.empty) = input

C9_Witness ==
  /\ pc = "reassociated"
  /\ input.type = "Node"
  /\ "sty" \in DOMAIN input
  /\ \E i \in 1..Len(input.children) :
       /\ input.children[i].type = "Node"
       /\ "sty" \notin DOMAIN input.children[i]
       /\ Len(input.children[i].children) >= 2
  /\ \E i \in 1..Len(input.children) : input.children[i].type = "Newline"
  /\ Len(WrapsOf(rlt)) = 2

\* C10 as stated: no input tree at all makes reassociation raise.
C10_NeverRaised == pc # "failed"

\* C10: reassociation raises for no tree whose root is a Node, an Atom or a
\* Spacer; a tree that is a lone Newline is rejected by the assertion in
\* the root dispatch.
C10_RaisedOnlyForRootNewline ==
  /\ pc = "failed" => (input.type = "Newline" /\ error = AssertFailed)
  /\ pc = "reassociated" => input.type # "Newline"

C10_Witness ==
  /\ pc = "reassociated"
  /\ input.type = "Node"
  /\ Len(input.children) >= 4
  /\ input.children[1].type = "Newline"
  /\ input.children[2].type = "Newline"
  /\ input.children[Len(input.children)].type = "Newline"

-----------------------------------------------------------------------------
(* Reading the input and the answer of fragmentsInfo.                      *)

\* The leaves of a measured tree under a left-to-right depth-first walk.
RECURSIVE DocLeaves(_)
DocLeaves(t) ==
  IF t.type = "Node"
  THEN Concat([i \in 1..Len(t.children) |-> DocLeaves(t.children[i])])
  ELSE <<t>>

\* The leaves of a reassociated tree, left to right, with a Newline where
\* a JoinV separates its two sides.
RECURSIVE RltLeaves(_)
RltLeaves(t) ==
  CASE t.type = "JoinV" -> RltLeaves(t.lhs) \o <<Newline>> \o RltLeaves(t.rhs)
    [] t.type = "JoinH" -> RltLeaves(t.lhs) \o RltLeaves(t.rhs)
    [] t.type = "Wrap" -> RltLeaves(t.child)
    [] OTHER -> <<t>>

\* The atoms of a flattening, each with the number of Newlines before it.
AtomsOfLeaves(ls) ==
  LET F[i \in 0..Len(ls)] ==
        IF i = 0 THEN [out |-> <<>>, line |-> 0]
        ELSE CASE ls[i].type = "Newline" -> [F[i - 1] EXCEPT !.line = @ + 1]
               [] ls[i].type = "Atom" ->
                    [F[i - 1] EXCEPT
                       !.out = Append(@, [text |-> ls[i].text,
                                          lineNo |-> F[i - 1].line])]
               [] OTHER -> F[i - 1]
  IN F[Len(ls)].out

Texts(frags) == [i \in 1..Len(frags) |-> frags[i].text]
LineNos(frags) == [i \in 1..Len(frags) |-> frags[i].lineNo]

\* A layout takes a Node, an Atom or a Spacer at the root.
ValidInput == input.type # "Newline"

\* fragmentsInfo() was called and returned.
Answered == query # None /\ query.op = "fragmentsInfo" /\ query.result.ok

\* C1: for every valid input tree and every layout algorithm the layout
\* gives a result, and fragmentsInfo() yields the Atoms in the order of a
\* left-to-right depth-first walk of the input tree.
C1_DocumentOrder ==
  ValidInput =>
    /\ pc # "failed"
    /\ query # None /\ query.op = "fragmentsInfo" =>
         /\ query.result.ok
         /\ Texts(query.result.val) = Texts(AtomsOfLeaves(DocLeaves(input)))

\* C2: the lineNo sequence of fragmentsInfo() is non-decreasing, and the
\* lineNo of an Atom is the number of Newlines before it in the flattening
\* of the input, which is the number of JoinV's before it in the
\* reassociated tree, sentinel-bordering Newlines included.
C2_MonotoneLineNumbers ==
  Answered =>
    LET got == LineNos(query.result.val)
    IN /\ \A i \in 1..Len(got) : \A j \in i..Len(got) : got[i] <= got[j]
       /\ got = LineNos(AtomsOfLeaves(DocLeaves(input)))
       /\ algo # "S-Blocks" => got = LineNos(AtomsOfLeaves(RltLeaves(rlt)))

\* A result whose first Atom follows a leading Newline and whose second
\* Atom follows two adjacent Newlines.
C2_Witness ==
  /\ Answered
  /\ algo = "L1P"
  /\ LineNos(query.result.val) = <<1, 3>>
  /\ DocLeaves(input)[1].type = "Newline"

HDisjoint(a, b) == a.right <= b.left \/ b.right <= a.left

RectsOverlap(a, b) ==
  /\ a.left < b.right /\ b.left < a.right
  /\ a.top < b.bottom /\ b.top < a.bottom

StackedAtoms(i) ==
  IF algo = "L1S"
  THEN { [index |-> k, rect |-> getByIndex(backing, k)] :
           k \in { n \in enumerateIndices(layout[i].region) :
                     ~isNumber(backing, n) } }
  ELSE { [index |-> SumSeq([k \in 1..(i - 1) |-> Len(layout[k].region)]) + j - 1,
          rect |-> layout[i].region[j].rect] :
           j \in { n \in 1..Len(layout[i].region) :
                     layout[i].region[n].type = "Stack" } }

\* Timetable.spaceBetween of two leaves of the reassociated tree.
SpaceBetweenLeaves(aIdx, bIdx) ==
  spaceBetween(IF algo = "L1S" THEN timetable ELSE fromLayoutTree(rlt).timetable,
               aIdx, bIdx)

PaddedApart(a, b) ==
  \E sp \in { SpaceBetweenLeaves(a.index, b.index) } :
    /\ sp.ok
    /\ ~RectsOverlap(inflate(a.rect, sp.val[1]), inflate(b.rect, sp.val[2]))

ScenarioX == input.children[1].children[1]
ScenarioY == input.children[1].children[3]

\* How far line i of a finished L1P layout of a scenario input was moved
\* down from where its Atom was measured.
ScenarioLineOffset(i) ==
  layout[i].region[1].rect.top
    - (IF i = 1 THEN ScenarioX ELSE ScenarioY).rect.top

-----------------------------------------------------------------------------
(* Polygons from rectangles (polygon/from-rectangles.ts).  An interval is  *)
(* a pair <<b, e>>; the IntervalTree of segments, which maps an interval   *)
(* to the set of its cross-axis coordinates, is the set of the records     *)
(* [b, e, c] it holds.                                                     *)

SetMin(S) == CHOOSE x \in S : \A y \in S : x <= y

intervalsIntersect(a, b) == a[1] <= b[2] /\ b[1] <= a[2]

subIntervalInterval(a, b) ==
  IF ~intervalsIntersect(a, b) THEN << a >>
  ELSE IF b[1] <= a[1] /\ b[2] >= a[2] THEN <<>>
  ELSE IF b[2] >= a[2] THEN << <<a[1], b[1]>> >>
  ELSE IF b[1] <= a[1] THEN << <<b[2], a[2]>> >>
  ELSE << <<a[1], b[1]>>, <<b[2], a[2]>> >>

subIntervalsInterval(as, b) ==
  Concat([i \in 1..Len(as) |-> subIntervalInterval(as[i], b)])

subIntervalIntervals(a, bs) ==
  LET F[i \in 0..Len(bs)] ==
        IF i = 0 THEN << a >> ELSE subIntervalsInterval(F[i - 1], bs[i])
  IN F[Len(bs)]

\* An IntervalSet is the sequence of the entries [index, interval] of the
\* Map, in insertion order.
intervalValues(intervalSet) ==
  [i \in 1..Len(intervalSet) |-> intervalSet[i].interval]

addInterval(interval, index, intervalSet) ==
  [notCovered |-> subIntervalIntervals(interval, intervalValues(intervalSet)),
   intervalSet |->
     IF \E i \in 1..Len(intervalSet) : intervalSet[i].index = index
     THEN [i \in 1..Len(intervalSet) |->
             IF intervalSet[i].index = index
             THEN [index |-> index, interval |-> interval]
             ELSE intervalSet[i]]
     ELSE Append(intervalSet, [index |-> index, interval |-> interval])]

\* The interval deleted, nothing of it reported as uncovered.
deleteIntervalSilently(index, intervalSet) ==
  Ok([notCovered |-> <<>>,
      intervalSet |-> SelectSeq(intervalSet, LAMBDA e : e.index # index)])

deleteInterval(index, intervalSet) ==
  IF ~\E i \in 1..Len(intervalSet) : intervalSet[i].index = index
  THEN Throw("Tried to delete non-existent interval")
  ELSE
    LET at == CHOOSE i \in 1..Len(intervalSet) : intervalSet[i].index = index
        rest == SubSeq(intervalSet, 1, at - 1)
                  \o SubSeq(intervalSet, at + 1, Len(intervalSet))
    IN Ok([notCovered |->
             subIntervalIntervals(intervalSet[at].interval, intervalValues(rest)),
           intervalSet |-> rest])

SweepEvent(side, rectIndex, sideCoordinate, interval) ==
  [side |-> side, rectIndex |-> rectIndex, sideCoordinate |-> sideCoordinate,
   interval |-> interval]

\* cmpEvents(a, b) < 0.
eventBefore(a, b) ==
  \/ a.sideCoordinate < b.sideCoordinate
  \/ a.sideCoordinate = b.sideCoordinate /\ a.side = "In" /\ b.side = "Out"

\* Array.prototype.sort with cmpEvents: a stable sort.
sortEvents(events) ==
  LET rank(i) ==
        Cardinality({ j \in 1..Len(events) :
                        \/ eventBefore(events[j], events[i])
                        \/ ~eventBefore(events[i], events[j]) /\ j < i })
  IN [k \in 1..Len(events) |->
        events[CHOOSE i \in 1..Len(events) : rank(i) = k - 1]]

\* The events of the rectangles that have a width and a height.
compileSweepEvents(rectangles) ==
  LET eventsOf(i, vertical) ==
        LET rect == rectangles[i + 1]
        IN IF width(rect) = 0 \/ height(rect) = 0 THEN <<>>
           ELSE IF vertical
           THEN << SweepEvent("In", i, rect.top, <<rect.left, rect.right>>),
                   SweepEvent("Out", i, rect.bottom, <<rect.left, rect.right>>) >>
           ELSE << SweepEvent("In", i, rect.left, <<rect.top, rect.bottom>>),
                   SweepEvent("Out", i, rect.right, <<rect.top, rect.bottom>>) >>
      all(vertical) ==
        Concat([k \in 1..Len(rectangles) |-> eventsOf(k - 1, vertical)])
  IN [vertical |-> sortEvents(all(TRUE)), horizontal |-> sortEvents(all(FALSE))]

Segment(interval, segCoordinate) ==
  [b |-> interval[1], e |-> interval[2], c |-> segCoordinate]

\* segments.search([x, x]): the segments whose interval holds x.
searchSegments(segments, x) == { s \in segments : s.b <= x /\ x <= s.e }

deleteSegment(interval, segCoordinate, segments) ==
  segments \ { Segment(interval, segCoordinate) }

\* The segment added as it is, abutting segments left alone.
addSegmentUnmerged(interval, segCoordinate, segments) ==
  segments \cup { Segment(interval, segCoordinate) }

addSegment(interval, segCoordinate, segments) ==
  LET touching(x) ==
        { s \in searchSegments(segments, x) :
            s.c = segCoordinate /\ (s.b = x \/ s.e = x) }
      merge == touching(interval[1]) \cup touching(interval[2])
      min == SetMin({ interval[1] } \cup { s.b : s \in merge })
      max == SetMax({ interval[2] } \cup { s.e : s \in merge })
  IN (segments \ merge) \cup { Segment(<<min, max>>, segCoordinate) }

addSegments(intervals, segCoordinate, segments) ==
  LET F[i \in 0..Len(intervals)] ==
        IF i = 0 THEN segments
        ELSE addSegment(intervals[i], segCoordinate, F[i - 1])
  IN F[Len(intervals)]

notEqual(a, b, x) ==
  IF a = x THEN Ok(b) ELSE IF b = x THEN Ok(a) ELSE Throw("notEqual")

\* The order in which segments.search yields its hits is the IntervalTree's
\* own; `order` names one of the two orders by interval.
firstHit(hits, order) ==
  IF order = "ascending"
  THEN CHOOSE s \in hits : \A t \in hits :
         s.b < t.b \/ (s.b = t.b /\ s.e <= t.e)
  ELSE CHOOSE s \in hits : \A t \in hits :
         s.b > t.b \/ (s.b = t.b /\ s.e >= t.e)

touchingHits(dir, point, segments) ==
  IF dir = "Vert"
  THEN { s \in searchSegments(segments, point.y) : s.c = point.x }
  ELSE { s \in searchSegments(segments, point.x) : s.c = point.y }

\* The found segment's other end and the remaining segments.
findAndRemoveSegmentTouchingPoint(dir, point, segments, order) ==
  LET hits == touchingHits(dir, point, segments)
      found(s) ==
        IF dir = "Vert"
        THEN Bind(notEqual(s.b, s.e, point.y),
                  LAMBDA y : Ok([point |-> Pt(point.x, y),
                                 segments |-> segments \ { s }]))
        ELSE Bind(notEqual(s.b, s.e, point.x),
                  LAMBDA x : Ok([point |-> Pt(x, point.y),
                                 segments |-> segments \ { s }]))
  IN IF hits = {} THEN Throw("No segment at point!")
     ELSE found(firstHit(hits, order))

topLeftPoint(horzSegments) ==
  IF horzSegments = {} THEN None
  ELSE LET candidates == { Pt(Min(s.b, s.e), s.c) : s \in horzSegments }
       IN CHOOSE p \in candidates : \A q \in candidates :
            p.y < q.y \/ (p.y = q.y /\ p.x <= q.x)

\* The segments one sweep leaves: for each event in turn, the intervals the
\* event uncovers are added at the event's coordinate.
RECURSIVE sweep(_, _, _, _)
sweep(events, i, activeIntervals, segments) ==
  IF i > Len(events) THEN Ok([segments |-> segments,
                              activeIntervals |-> activeIntervals])
  ELSE LET event == events[i]
           step(u) ==
             sweep(events, i + 1, u.intervalSet,
                   addSegments(u.notCovered, event.sideCoordinate, segments))
       IN IF event.side = "In"
          THEN step(addInterval(event.interval, event.rectIndex, activeIntervals))
          ELSE Bind(deleteInterval(event.rectIndex, activeIntervals), step)

\* The do-while loop of fromRectangles: one path, from cur back to firstPoint.
RECURSIVE tracePath(_, _, _, _, _, _, _)
tracePath(path, cur, lookingFor, firstPoint, horzSegments, vertSegments, order) ==
  Bind(findAndRemoveSegmentTouchingPoint(
         lookingFor, cur,
         IF lookingFor = "Vert" THEN vertSegments ELSE horzSegments, order),
       LAMBDA f :
         LET horz == IF lookingFor = "Vert" THEN horzSegments ELSE f.segments
             vert == IF lookingFor = "Vert" THEN f.segments ELSE vertSegments
         IN IF f.point = firstPoint
            THEN Ok([path |-> Append(path, cur), horz |-> horz, vert |-> vert])
            ELSE tracePath(Append(path, cur), f.point,
                           IF lookingFor = "Vert" THEN "Horz" ELSE "Vert",
                           firstPoint, horz, vert, order))

\* The for(;;) loop of fromRectangles.
RECURSIVE tracePolygon(_, _, _, _)
tracePolygon(polygon, horzSegments, vertSegments, order) ==
  IF horzSegments = {} THEN Ok(polygon)
  ELSE Bind(tracePath(<<>>, topLeftPoint(horzSegments), "Vert",
                      topLeftPoint(horzSegments), horzSegments, vertSegments,
                      order),
            LAMBDA t : tracePolygon(Append(polygon, t.path), t.horz, t.vert, order))

fromRectanglesIn(rectangles, order) ==
  Bind(sweep(compileSweepEvents(rectangles).vertical, 1, <<>>, {}),
       LAMBDA v :
         Bind(sweep(compileSweepEvents(rectangles).horizontal, 1,
                    v.activeIntervals, {}),
              LAMBDA h : tracePolygon(<<>>, v.segments, h.segments, order)))

-----------------------------------------------------------------------------
(* Paths and polygons (polygon.ts).  A path is a sequence of points, a     *)
(* polygon a sequence of paths.                                            *)

Abs(n) == IF n < 0 THEN -n ELSE n

pathOfRect(r) ==
  << Pt(r.left, r.top), Pt(r.left, r.bottom),
     Pt(r.right, r.bottom), Pt(r.right, r.top) >>

\* path[i] of the source, i taken modulo the length.
At(path, i) == path[(i % Len(path)) + 1]

isPathCCW(path) ==
  SumSeq([k \in 1..Len(path) |->
            (At(path, k).x - At(path, k - 1).x)
              * (At(path, k).y + At(path, k - 1).y)]) > 0

\* The segment from begin to end; dir is "Throws" where the source throws
\* "Non axis-aligned points in mkRectiSegment".
mkRectiSegment(begin, end) ==
  LET dx == Abs(begin.x - end.x)
      dy == Abs(begin.y - end.y)
  IN IF dx > 0 /\ dy > 0
     THEN [dir |-> "Throws", begin |-> 0, end |-> 0, seg |-> 0,
           beginP |-> begin, endP |-> end]
     ELSE IF dx < dy
     THEN [dir |-> "Vert", begin |-> begin.y, end |-> end.y, seg |-> begin.x,
           beginP |-> begin, endP |-> end]
     ELSE [dir |-> "Horz", begin |-> begin.x, end |-> end.x, seg |-> begin.y,
           beginP |-> begin, endP |-> end]

eachRectiSegment(path) ==
  IF Len(path) < 2 THEN <<>>
  ELSE [k \in 1..Len(path) |-> mkRectiSegment(At(path, k - 1), At(path, k))]

horzSegmentOverlaps(p, seg) ==
  Min(seg.begin, seg.end) <= p.x /\ p.x <= Max(seg.begin, seg.end)

vertSegmentOverlaps(p, seg) ==
  Min(seg.begin, seg.end) <= p.y /\ p.y <= Max(seg.begin, seg.end)

vertSegmentToRightOfP(p, seg) == vertSegmentOverlaps(p, seg) /\ p.x < seg.seg

pointOnRectiSegmentEdge(p, seg) ==
  IF seg.dir = "Horz" THEN p.y = seg.seg /\ horzSegmentOverlaps(p, seg)
  ELSE p.x = seg.seg /\ vertSegmentOverlaps(p, seg)

pointOnPathEdge(p, path) ==
  \E k \in 1..Len(eachRectiSegment(path)) :
    pointOnRectiSegmentEdge(p, eachRectiSegment(path)[k])

\* The crossings counted without the adjustment for a horizontal segment
\* that lies on the ray.
rayCrossingsUnadjusted(p, path, i) ==
  IF mkRectiSegment(At(path, i), At(path, i + 1)).dir = "Vert"
       /\ vertSegmentToRightOfP(p, mkRectiSegment(At(path, i), At(path, i + 1)))
  THEN 1 ELSE 0

\* What the callback of countHorzRayPathIntersections adds for the triple
\* of segments that starts at path[i].
rayCrossings(p, path, i) ==
  LET a == mkRectiSegment(At(path, i), At(path, i + 1))
      b == mkRectiSegment(At(path, i + 1), At(path, i + 2))
      c == mkRectiSegment(At(path, i + 2), At(path, i + 3))
      aSide == notEqual(a.begin, a.end, p.y).val < p.y
      cSide == notEqual(c.begin, c.end, p.y).val < p.y
  IN IF a.dir = "Vert" /\ b.dir = "Horz" /\ c.dir = "Vert"
     THEN (IF vertSegmentToRightOfP(p, a) THEN 1 ELSE 0)
          + (IF p.x < Min(b.begin, b.end) /\ b.seg = p.y
             THEN (IF aSide = cSide THEN -2 ELSE -1)
             ELSE 0)
     ELSE IF a.dir = "Vert" /\ vertSegmentToRightOfP(p, a) THEN 1 ELSE 0

countHorzRayPathIntersections(p, path) ==
  IF Len(path) <= 2 THEN 0
  ELSE SumSeq([k \in 1..Len(path) |-> rayCrossings(p, path, k - 1)])

isOdd(n) == n % 2 # 0

pointInPath(p, path, includeEdges) ==
  IF includeEdges = "IncludeEdges"
  THEN pointOnPathEdge(p, path) \/ isOdd(countHorzRayPathIntersections(p, path))
  ELSE ~pointOnPathEdge(p, path) /\ isOdd(countHorzRayPathIntersections(p, path))

pointInPolygon(p, polygon) ==
  \/ \E k \in 1..Len(polygon) : pointOnPathEdge(p, polygon[k])
  \/ isOdd(SumSeq([k \in 1..Len(polygon) |->
                     countHorzRayPathIntersections(p, polygon[k])]))

pointInRect(p, r) ==
  IF width(r) = 0 \/ height(r) = 0 THEN FALSE
  ELSE r.left <= p.x /\ p.x <= r.right /\ r.top <= p.y /\ p.y <= r.bottom

-----------------------------------------------------------------------------
(* fromRectangles called on a list of rectangles and pointInPolygon called *)
(* on its result, as the polygon tests call them.                          *)

\* Rectangle corners lie on the coordinates 0, 2, .. 2 * PolyGrid.
PolyGrid == 3

PolyRectsOn(n) ==
  { MkRect(2 * l, 2 * r, 2 * t, 2 * b) :
      l \in 0..n, r \in 0..n, t \in 0..n, b \in 0..n } \ 
  { rc \in { MkRect(2 * l, 2 * r, 2 * t, 2 * b) :
               l \in 0..n, r \in 0..n, t \in 0..n, b \in 0..n } :
      rc.left >= rc.right \/ rc.top >= rc.bottom }

\* Rectangles without a width or without a height.
FlatRects == { MkRect(0, 0, 0, 2), MkRect(0, 2, 2, 2), MkRect(2, 2, 2, 2) }

\* r(x, y, w, h) of the polygon tests.
RectXYWH(x, y, w, h) == MkRect(x, x + w, y, y + h)

\* The "O pattern" of the polygon tests.
ORing == << RectXYWH(0, 0, 50, 10), RectXYWH(40, 0, 10, 50),
            RectXYWH(0, 40, 50, 10), RectXYWH(0, 0, 10, 50) >>

PolygonInputs ==
  { <<>>, ORing }
    \cup { << a >> : a \in PolyRectsOn(PolyGrid) \cup FlatRects }
    \cup { << a, b >> : a \in PolyRectsOn(PolyGrid) \cup FlatRects,
                        b \in PolyRectsOn(PolyGrid) \cup FlatRects }
    \cup { << a, b, c >> : a \in PolyRectsOn(PolyGrid - 1),
                           b \in PolyRectsOn(PolyGrid - 1),
                           c \in PolyRectsOn(PolyGrid - 1) }

SearchOrders == { "ascending", "descending" }

\* The points queried for a list of rectangles: on, just before and just
\* after every coordinate of a rectangle side.
PointsAround(rects) ==
  LET near(cs) == UNION { { c - 1, c, c + 1 } : c \in cs }
      xs == near(UNION { { rects[i].left, rects[i].right } : i \in 1..Len(rects) })
      ys == near(UNION { { rects[i].top, rects[i].bottom } : i \in 1..Len(rects) })
  IN { Pt(x, y) : x \in xs, y \in ys }

InitPolygon ==
  /\ input \in PolygonInputs
  /\ algo \in {"fromRectangles"}
  /\ settings = NoSettings
  /\ pc = "start"
  /\ rlt = None
  /\ timetable = NoTimetable
  /\ ltWithRegions = None
  /\ backing = NoBacking
  /\ layout = <<>>
  /\ loop = NoLoop
  /\ result = None
  /\ error = NoError
  /\ query = None

FromRectangles(order) ==
  /\ pc = "start"
  /\ algo = "fromRectangles"
  /\ \E res \in { fromRectanglesIn(input, order) } :
       IF res.ok
       THEN /\ result' = res.val
            /\ pc' = "polygon"
            /\ error' = error
       ELSE /\ result' = result
            /\ pc' = "failed"
            /\ error' = res.msg
  /\ UNCHANGED <<input, algo, settings, rlt, timetable, ltWithRegions,
                 backing, layout, loop, query>>

PointInPolygon(p) ==
  /\ pc = "polygon"
  /\ algo = "fromRectangles"
  /\ query' = [op |-> "pointInPolygon", p |-> p,
               result |-> pointInPolygon(p, result)]
  /\ pc' = "queried"
  /\ UNCHANGED <<input, algo, settings, rlt, timetable, ltWithRegions,
                 backing, layout, loop, result, error>>

NextPolygon ==
  \/ \E order \in SearchOrders : FromRectangles(order)
  \/ \E p \in PointsAround(input) : PointInPolygon(p)

SpecPolygon == InitPolygon /\ [][NextPolygon]_vars

-----------------------------------------------------------------------------
(* Claims about fromRectangles and pointInPolygon.                         *)

pointInRects(p, rects) == \E i \in 1..Len(rects) : pointInRect(p, rects[i])

\* C11: for every list of rectangles and every point, the point is in the
\* polygon fromRectangles makes of the list exactly when it is in at least
\* one rectangle of the list.
C11_PolygonIsUnion ==
  /\ pc = "polygon" =>
       \A p \in PointsAround(input) :
         pointInPolygon(p, result) = pointInRects(p, input)
  /\ pc = "queried" => query.result = pointInRects(query.p, input)

\* A point in the hole of the O pattern is found outside, and a point on
\* the ray's horizontal segment of two overlapping rectangles inside.
C11_Witness ==
  /\ pc = "queried"
  /\ input = ORing
  /\ query.p = Pt(11, 39)
  /\ query.result = FALSE
  /\ pointInPolygon(Pt(9, 40), result)
  /\ Len(result) = 2


isRectilinear(path) ==
  \A k \in 1..Len(eachRectiSegment(path)) :
    eachRectiSegment(path)[k].dir # "Throws"

\* The path is that of the rectangle r, from any of its corners on.
IsPathOfRect(path, r) ==
  /\ Len(path) = 4
  /\ \E s \in 0..3 : \A k \in 0..3 : At(path, k + s) = At(pathOfRect(r), k)

\* Two rectangles that meet in one corner point only.
MeetAtCorner(a, b) ==
  /\ width(a) > 0 /\ height(a) > 0 /\ width(b) > 0 /\ height(b) > 0
  /\ a.right = b.left \/ b.right = a.left
  /\ a.bottom = b.top \/ b.bottom = a.top

\* C12: every path fromRectangles returns is rectilinear and
\* counter-clockwise by isPathCCW, hole paths included; the O pattern gives
\* exactly two such paths, the outer 50x50 square and the inner 30x30 one.
C12_PathsRectilinearCCW ==
  pc = "polygon" =>
    /\ \A k \in 1..Len(result) :
         isRectilinear(result[k]) /\ isPathCCW(result[k])
    /\ input = ORing =>
         /\ Len(result) = 2
         /\ IsPathOfRect(result[1], MkRect(0, 50, 0, 50))
         /\ IsPathOfRect(result[2], MkRect(10, 40, 10, 40))


\* Rectangle a lies on rectangle b: they touch along a segment of positive
\* length, the bottom of a on the top of b.
StackedOn(a, b) ==
  /\ width(a) > 0 /\ height(a) > 0 /\ width(b) > 0 /\ height(b) > 0
  /\ a.bottom = b.top
  /\ Max(a.left, b.left) < Min(a.right, b.right)

\* No vertex of the path lies between two collinear segments.
SegmentsAlternate(path) ==
  \A k \in 1..Len(path) :
    eachRectiSegment(path)[k].dir # eachRectiSegment(path)[(k % Len(path)) + 1].dir

\* C13: two rectangles with disjoint interiors that touch along a segment
\* of positive length (bottom = top, overlapping x-extents) give a single
\* path in which abutting collinear segments are merged; with equal
\* x-extents the path is that of the rectangle around both.
C13_TouchingRectsOnePath ==
  (/\ pc # "start"
   /\ Len(input) = 2
   /\ StackedOn(input[1], input[2]) \/ StackedOn(input[2], input[1])) =>
    /\ pc # "failed"
    /\ Len(result) = 1
    /\ SegmentsAlternate(result[1])
    /\ isPathCCW(result[1])
    /\ (input[1].left = input[2].left /\ input[1].right = input[2].right) =>
         IsPathOfRect(result[1], union(input[1], input[2]))

\* The "just touching" rectangles of the polygon tests, halved.
C13_Witness ==
  /\ pc = "polygon"
  /\ input = << RectXYWH(0, 0, 4, 2), RectXYWH(0, 2, 4, 2) >>
  /\ result = << pathOfRect(MkRect(0, 4, 0, 4)) >>


\* C14 as stated: for every rectangle R, fromRectangles([R]) is the one
\* path pathOfRect(R), up to a rotation of its vertices.
C14_SingleRectAnyRect ==
  (pc # "start" /\ Len(input) = 1) =>
    /\ pc # "failed"
    /\ Len(result) = 1
    /\ IsPathOfRect(result[1], input[1])

\* C14, amended: for every rectangle R with a width and a height,
\* fromRectangles([R]) is the one path pathOfRect(R), up to a rotation of
\* its vertices (the code returns it unrotated); for a rectangle without
\* width or without height it is the empty polygon.
C14_SingleRect ==
  (pc # "start" /\ Len(input) = 1) =>
    /\ pc # "failed"
    /\ IF width(input[1]) > 0 /\ height(input[1]) > 0
       THEN /\ Len(result) = 1
            /\ IsPathOfRect(result[1], input[1])
            /\ result[1] = pathOfRect(input[1])
       ELSE result = <<>>

C14_Witness ==
  /\ pc = "polygon"
  /\ input = << MkRect(2, 6, 0, 4) >>
  /\ result = << << Pt(2, 0), Pt(2, 4), Pt(6, 4), Pt(6, 0) >> >>

-----------------------------------------------------------------------------
(* Offsetting and simplifying paths (polygon.ts).                          *)

directionOfSegment(seg) ==
  IF seg.dir = "Horz"
  THEN (IF seg.begin < seg.end THEN "East" ELSE "West")
  ELSE (IF seg.begin < seg.end THEN "South" ELSE "North")

InvalidCorner == "Invalid corner"

cornerFromDirections(a, b) ==
  CASE a = "East" /\ b = "South" -> Ok("EastSouth")
    [] a = "East" /\ b = "North" -> Ok("EastNorth")
    [] a = "North" /\ b = "East" -> Ok("NorthEast")
    [] a = "North" /\ b = "West" -> Ok("NorthWest")
    [] a = "West" /\ b = "North" -> Ok("WestNorth")
    [] a = "West" /\ b = "South" -> Ok("WestSouth")
    [] a = "South" /\ b = "West" -> Ok("SouthWest")
    [] a = "South" /\ b = "East" -> Ok("SouthEast")
    [] OTHER -> Throw(InvalidCorner)

rectOfRectiSegments(a, b) ==
  IF a.dir = b.dir THEN Throw(AssertFailed)
  ELSE IF a.dir = "Horz"
  THEN Ok(MkRect(Min(a.begin, a.end), Max(a.begin, a.end),
                 Min(b.begin, b.end), Max(b.begin, b.end)))
  ELSE Ok(MkRect(Min(b.begin, b.end), Max(b.begin, b.end),
                 Min(a.begin, a.end), Max(a.begin, a.end)))

cross(a, b) == a.dx * b.dy - b.dx * a.dy

isTurnCW(a, b, c) == cross(subPoints(b, a), subPoints(c, b)) > 0

lengthOfSegment(seg) == Abs(seg.begin - seg.end)

\* n / Math.abs(n); 0 / 0 is NaN.
Sign(n) == IF n > 0 THEN 1 ELSE -1

\* The outcome of offsetPath when a coordinate of the new path is NaN.
NaNPath == [ok |-> FALSE, msg |-> "NaN"]

\* The corner moved along the bisector whichever way the path turns.
offsetCornerAnyTurn(amt, a, b, c) ==
  Pt(b.x + Sign(subPoints(b, a).dx + subPoints(b, c).dx) * amt,
     b.y + Sign(subPoints(b, a).dy + subPoints(b, c).dy) * amt)

\* The point offsetPath makes of the corner b between a and c.
offsetCorner(amt, a, b, c) ==
  LET sx == subPoints(b, a).dx + subPoints(b, c).dx
      sy == subPoints(b, a).dy + subPoints(b, c).dy
      s == IF isTurnCW(a, b, c) THEN -1 ELSE 1
  IN Pt(b.x + Sign(sx) * amt * s, b.y + Sign(sy) * amt * s)

cornerIsNaN(a, b, c) ==
  \/ subPoints(b, a).dx + subPoints(b, c).dx = 0
  \/ subPoints(b, a).dy + subPoints(b, c).dy = 0

\* eachTripleInPath pushes the corner at path[0] first and the one at
\* path[1] last; out.reverse() then puts the corner at path[1] first.
offsetPath(amt, path) ==
  IF Len(path) <= 2 THEN Ok(<<>>)
  ELSE IF \E k \in 1..Len(path) :
            cornerIsNaN(At(path, k - 1), At(path, k), At(path, k + 1))
  THEN NaNPath
  ELSE Ok([k \in 1..Len(path) |->
             offsetCorner(amt, At(path, k - 1), At(path, k), At(path, k + 1))])

offsetPolygon(amt, polygon) ==
  IF \E k \in 1..Len(polygon) : ~offsetPath(amt, polygon[k]).ok THEN NaNPath
  ELSE Ok([k \in 1..Len(polygon) |-> offsetPath(amt, polygon[k]).val])

\* What the horizontal segment seg adds to the area: the part of the
\* segment over the rectangle, times its clamped distance from the bottom.
segmentArea(rect, seg) ==
  LET lo == Min(seg.begin, seg.end)
      hi == Max(seg.begin, seg.end)
      y == Max(rect.top, Min(rect.bottom, seg.seg))
      intervalArea ==
        Abs(Max(lo, rect.left) - Min(hi, rect.right)) * Abs(rect.bottom - y)
  IN IF seg.dir = "Vert" \/ ~intervalsIntersect(<<rect.left, rect.right>>, <<lo, hi>>)
     THEN 0
     ELSE IF directionOfSegment(seg) = "West" THEN intervalArea
     ELSE 0 - intervalArea

rectPathIntersectionArea(rect, path) ==
  SumSeq([k \in 1..Len(eachRectiSegment(path)) |->
            segmentArea(rect, eachRectiSegment(path)[k])])

rectIntersectsPath(rect, path) == rectPathIntersectionArea(rect, path) > 0

rectContainedWithinPath(rect, path) ==
  width(rect) * height(rect) - rectPathIntersectionArea(rect, path) = 0

rectIntersectsAnyPath(rect, polygon) ==
  \E k \in 1..Len(polygon) : rectIntersectsPath(rect, polygon[k])

rectContainedWithinSome(rect, polygon) ==
  \E k \in 1..Len(polygon) : rectContainedWithinPath(rect, polygon[k])

NoDirection == "null"

antiknobDirection(a, b) ==
  CASE a = "WestNorth" /\ b = "NorthEast" -> "East"
    [] a = "SouthWest" /\ b = "WestNorth" -> "North"
    [] a = "EastSouth" /\ b = "SouthWest" -> "West"
    [] a = "NorthEast" /\ b = "EastSouth" -> "South"
    [] OTHER -> NoDirection

valueAlongDirection(d, seg) ==
  CASE d = "East" -> IF seg.dir = "Horz" THEN Max(seg.begin, seg.end) ELSE seg.seg
    [] d = "West" -> IF seg.dir = "Horz" THEN Min(seg.begin, seg.end) ELSE seg.seg
    [] d = "North" -> IF seg.dir = "Horz" THEN seg.seg ELSE Min(seg.begin, seg.end)
    [] d = "South" -> IF seg.dir = "Horz" THEN seg.seg ELSE Max(seg.begin, seg.end)

\* An optional polygon argument.
Given(polygon) == [given |-> TRUE, polygon |-> polygon]
NotGiven == [given |-> FALSE, polygon |-> <<>>]

\* The three tests both removals make of the area they would add.
mayCover(newArea, path, keepInside, keepOutside) ==
  /\ ~rectIntersectsPath(newArea, path)
  /\ ~(keepOutside.given /\ rectIntersectsAnyPath(newArea, keepOutside.polygon))
  /\ ~(keepInside.given /\ ~rectContainedWithinSome(newArea, keepInside.polygon))

\* idxs.sort((a, b) => b - a).
SortDescending(idxs) ==
  LET rank(i) ==
        Cardinality({ j \in 1..Len(idxs) :
                        idxs[j] > idxs[i] \/ (idxs[j] = idxs[i] /\ j < i) })
  IN [k \in 1..Len(idxs) |-> idxs[CHOOSE i \in 1..Len(idxs) : rank(i) = k - 1]]

\* path.splice(idx, 1); nothing is removed for an idx beyond the path.
splice(path, idx) ==
  IF idx + 1 > Len(path) THEN path
  ELSE SubSeq(path, 1, idx) \o SubSeq(path, idx + 2, Len(path))

\* As spliceAll, but i stays where it was when a point below it is spliced
\* out.
RECURSIVE spliceAllKeepsIndex(_, _, _)
spliceAllKeepsIndex(path, i, idxs) ==
  IF idxs = <<>> THEN [path |-> path, i |-> i]
  ELSE spliceAllKeepsIndex(splice(path, Head(idxs)), i, Tail(idxs))

\* The Delete case of both iterations: the path and i after the points at
\* idxs are spliced out, largest first.
RECURSIVE spliceAll(_, _, _)
spliceAll(path, i, idxs) ==
  IF idxs = <<>> THEN [path |-> path, i |-> i]
  ELSE spliceAll(splice(path, Head(idxs)),
                 IF Head(idxs) < i THEN i - 1 ELSE i, Tail(idxs))

\* The path with path[i] (i modulo the length) replaced.
setPoint(path, i, point) == [path EXCEPT ![(i % Len(path)) + 1] = point]

NonAxisAligned == "Non axis-aligned points in mkRectiSegment"
UndefinedPoint == "TypeError: cannot read properties of undefined"

NoDecision == [type |-> "None", path |-> <<>>, idxs |-> <<>>]
Delete(path, idxs) == [type |-> "Delete", path |-> path, idxs |-> idxs]

\* The callback of tryToRemoveAntiknobs on the segments a, b, c from
\* path[i] on: its decision, with the path after the callback moved a point.
antiknobDecision(path, i, keepInside, keepOutside) ==
  LET l == Len(path)
      a == mkRectiSegment(At(path, i), At(path, i + 1))
      b == mkRectiSegment(At(path, i + 1), At(path, i + 2))
      c == mkRectiSegment(At(path, i + 2), At(path, i + 3))
      decide(backDir) ==
        LET dNearBack == Abs(valueAlongDirection(backDir, b)
                               - valueAlongDirection(backDir, a))
            dFarBack == Abs(valueAlongDirection(backDir, b)
                              - valueAlongDirection(backDir, c))
            remove(newArea) ==
              IF ~isRectilinear(path) THEN Throw(NonAxisAligned)
              ELSE IF ~mayCover(newArea, path, keepInside, keepOutside)
              THEN Ok(NoDecision)
              ELSE IF dNearBack = dFarBack
              THEN Ok(Delete(path, << (i + 3) % l, (i + 2) % l, (i + 1) % l, i >>))
              ELSE IF dNearBack < dFarBack
              THEN Ok(Delete(
                     setPoint(path, i,
                              IF a.dir = "Horz" THEN Pt(a.beginP.x, c.seg)
                              ELSE Pt(c.seg, a.beginP.y)),
                     << (i + 2) % l, (i + 1) % l >>))
              ELSE Ok(Delete(
                     setPoint(path, i + 3,
                              IF c.dir = "Horz" THEN Pt(c.endP.x, a.seg)
                              ELSE Pt(a.seg, c.endP.y)),
                     << (i + 2) % l, (i + 1) % l >>))
        IN Bind(IF dNearBack < dFarBack THEN rectOfRectiSegments(a, b)
                ELSE rectOfRectiSegments(b, c), remove)
      corners(ab) ==
        Bind(cornerFromDirections(directionOfSegment(b), directionOfSegment(c)),
             LAMBDA bc : IF antiknobDirection(ab, bc) = NoDirection
                         THEN Ok(NoDecision)
                         ELSE decide(antiknobDirection(ab, bc)))
  IN IF "Throws" \in { a.dir, b.dir, c.dir } THEN Throw(NonAxisAligned)
     ELSE Bind(cornerFromDirections(directionOfSegment(a), directionOfSegment(b)),
               corners)

\* eachRectiSegmentTriple with the callback of tryToRemoveAntiknobs, from
\* index i down.
RECURSIVE antiknobLoop(_, _, _, _, _)
antiknobLoop(path, i, removed, keepInside, keepOutside) ==
  IF i < 0 THEN Ok([path |-> path, removed |-> removed])
  ELSE IF i + 1 > Len(path) THEN Throw(UndefinedPoint)
  ELSE Bind(antiknobDecision(path, i, keepInside, keepOutside),
            LAMBDA d :
              IF d.type = "None"
              THEN antiknobLoop(path, i - 1, removed, keepInside, keepOutside)
              ELSE antiknobLoop(
                     spliceAll(d.path, i, SortDescending(d.idxs)).path,
                     spliceAll(d.path, i, SortDescending(d.idxs)).i - 1,
                     TRUE, keepInside, keepOutside))

\* The path after the call and the value returned.
tryToRemoveAntiknobs(path, keepInside, keepOutside) ==
  IF Len(path) <= 2 THEN Ok([path |-> path, removed |-> FALSE])
  ELSE antiknobLoop(path, Len(path) - 1, FALSE, keepInside, keepOutside)

\* The callback of tryToRemoveClockwiseCorners on the points a, b, c from
\* path[i] on.
cornerDecision(path, i, keepInside, keepOutside) ==
  LET l == Len(path)
      a == At(path, i)
      b == At(path, i + 1)
      c == At(path, i + 2)
      ab == mkRectiSegment(a, b)
      bc == mkRectiSegment(b, c)
      dx == IF ab.dir = "Horz" THEN ab.begin - ab.end ELSE bc.end - bc.begin
      dy == IF ab.dir = "Horz" THEN bc.end - bc.begin ELSE ab.begin - ab.end
      remove(newArea) ==
        IF ~isRectilinear(path) THEN Throw(NonAxisAligned)
        ELSE IF ~mayCover(newArea, path, keepInside, keepOutside)
        THEN Ok(NoDecision)
        ELSE Ok(Delete(setPoint(path, i + 1, Pt(b.x + dx, b.y + dy)),
                       << (i + 2) % l, i >>))
  IN IF ~isTurnCW(a, b, c) THEN Ok(NoDecision)
     ELSE IF "Throws" \in { ab.dir, bc.dir } THEN Throw(NonAxisAligned)
     ELSE Bind(rectOfRectiSegments(ab, bc), remove)

\* eachTripleInPath with the callback of tryToRemoveClockwiseCorners.
RECURSIVE cornerLoop(_, _, _, _, _)
cornerLoop(path, i, removed, keepInside, keepOutside) ==
  IF i < 0 THEN Ok([path |-> path, removed |-> removed])
  ELSE IF i + 1 > Len(path) THEN Throw(UndefinedPoint)
  ELSE Bind(cornerDecision(path, i, keepInside, keepOutside),
            LAMBDA d :
              IF d.type = "None"
              THEN cornerLoop(path, i - 1, removed, keepInside, keepOutside)
              ELSE cornerLoop(
                     spliceAll(d.path, i, SortDescending(d.idxs)).path,
                     spliceAll(d.path, i, SortDescending(d.idxs)).i - 1,
                     TRUE, keepInside, keepOutside))

tryToRemoveClockwiseCorners(path, keepInside, keepOutside) ==
  IF Len(path) <= 2 THEN Ok([path |-> path, removed |-> FALSE])
  ELSE cornerLoop(path, Len(path) - 1, FALSE, keepInside, keepOutside)

\* The path after simplifyPath.
RECURSIVE simplifyPath(_, _, _)
simplifyPath(keepInside, keepOutside, path) ==
  Bind(tryToRemoveAntiknobs(path, Given(keepInside), Given(keepOutside)),
       LAMBDA k :
         IF k.removed THEN simplifyPath(keepInside, keepOutside, k.path)
         ELSE Bind(tryToRemoveClockwiseCorners(k.path, Given(keepInside),
                                               Given(keepOutside)),
                   LAMBDA c :
                     IF c.removed
                     THEN simplifyPath(keepInside, keepOutside, c.path)
                     ELSE Ok(c.path)))

\* simplifyPolygons on allPaths = polygons.flat(): the paths after the
\* loop has simplified the paths before index i + 1.
RECURSIVE simplifyPaths(_, _, _)
simplifyPaths(keepInside, allPaths, i) ==
  IF i + 1 > Len(allPaths) THEN Ok(allPaths)
  ELSE Bind(simplifyPath(keepInside,
                         SubSeq(allPaths, 1, i)
                           \o SubSeq(allPaths, i + 2, Len(allPaths)),
                         allPaths[i + 1]),
            LAMBDA p :
              simplifyPaths(keepInside, [allPaths EXCEPT ![i + 1] = p], i + 1))

\* The polygons after simplifyPolygons.
simplifyPolygons(keepInside, polygons) ==
  LET starts == [k \in 1..Len(polygons) |->
                   SumSeq([j \in 1..(k - 1) |-> Len(polygons[j])])]
  IN Bind(simplifyPaths(keepInside, Concat(polygons), 0),
          LAMBDA ps :
            Ok([k \in 1..Len(polygons) |->
                  SubSeq(ps, starts[k] + 1, starts[k] + Len(polygons[k]))]))


-----------------------------------------------------------------------------
(* The removals, simplifyPolygons and offsetPath applied, one after the    *)
(* other, to the outlines fromRectangles makes of two lists of rectangles, *)
(* as OutlinedRocksLayout.layout and the polygon tests apply them.         *)

\* The rectangles are cells of a grid of PathCells x PathCells cells.
PathCells == 3
\* The side of a cell.
CellSide == 4
\* At most MaxOffsets offsets are applied in a row, after the removals.
MaxOffsets == 1

Cell(cx, cy) ==
  MkRect(CellSide * cx, CellSide * (cx + 1), CellSide * cy, CellSide * (cy + 1))

CellIds == 0..(PathCells * PathCells - 1)
CellOf(id) == Cell(id % PathCells, id \div PathCells)

\* The cells of a set, in the order of their ids.
RECURSIVE CellList(_)
CellList(ids) ==
  IF ids = {} THEN <<>>
  ELSE << CellOf(SetMin(ids)) >> \o CellList(ids \ { SetMin(ids) })

WholeGrid == MkRect(0, CellSide * PathCells, 0, CellSide * PathCells)

\* keepInside and the two polygons, as the JoinH/JoinV case of
\* OutlinedRocksLayout.layout forms them: the outlines of the rectangles of
\* the left and of the right side, which do not overlap, within the
\* outline around both.
PathInput(lhs, rhs) ==
  [keepInside |-> << pathOfRect(WholeGrid) >>,
   polygons |-> << fromRectanglesIn(CellList(lhs), "ascending").val,
                   fromRectanglesIn(CellList(rhs), "ascending").val >>]

\* The path from its n-th point on.
Rotate(path, n) == [k \in 1..Len(path) |-> At(path, k - 1 + n)]

\* Two cells that meet in a corner only, beside an L of three cells around
\* the second of them.
CornerBesideL ==
  PathInput({ 0, PathCells + 1 }, { PathCells, 2 * PathCells, 2 * PathCells + 1 })

\* The outlines of an L and of two U of cells, begun at each of their
\* points in turn: every triple of the iterations wraps around the end of
\* some of them.
RotatedShapes ==
  { { 0, PathCells, PathCells + 1 },
    { 0, 2, PathCells, PathCells + 1, PathCells + 2 },
    { 0, 1, 2, PathCells, PathCells + 2 } }

RotatedInputs ==
  UNION { { [keepInside |-> << pathOfRect(WholeGrid) >>,
             polygons |-> << << Rotate(Outline, n) >>, <<>> >>] :
              n \in 1..(Len(Outline) - 1) } :
            Outline \in { fromRectanglesIn(CellList(ids), "ascending").val[1] :
                            ids \in RotatedShapes } }

PathInputs ==
  UNION { { PathInput(lhs, rhs) :
              rhs \in { ids \in { {} } \cup { { 0 }, { PathCells * PathCells - 1 } } :
                          ids \cap lhs = {} } } :
            lhs \in (SUBSET CellIds) \ { {} } }
    \cup { CornerBesideL }
    \cup RotatedInputs

OffsetAmounts == (-(CellSide - 1))..(CellSide - 1) \ { 0 }

InitPath ==
  /\ input \in PathInputs
  /\ algo \in {"simplify"}
  /\ settings = NoSettings
  /\ pc = "paths"
  /\ rlt = None
  /\ timetable = NoTimetable
  /\ ltWithRegions = None
  /\ backing = NoBacking
  /\ layout = <<>>
  /\ loop = NoLoop
  /\ result = Concat(input.polygons)
  /\ error = NoError
  /\ query = None

\* The paths other than the one at index k (from 0).
others(paths, k) == SubSeq(paths, 1, k) \o SubSeq(paths, k + 2, Len(paths))

\* The record of the last call: what was called, on which path, with which
\* amount, and the paths before it; offsets counts the offsets in a row.
Call(op, k, amt, before, offsets) ==
  [op |-> op, k |-> k, amt |-> amt, before |-> before, offsets |-> offsets]

OffsetsSoFar == IF query = None THEN 0 ELSE query.offsets

\* The outcome r of a call that leaves a path at index k.
PathOutcome(r, k, call) ==
  /\ IF r.ok
     THEN /\ result' = [result EXCEPT ![k + 1] = r.val]
          /\ pc' = pc
          /\ error' = error
     ELSE /\ result' = result
          /\ pc' = IF r = NaNPath THEN "nan" ELSE "failed"
          /\ error' = r.msg
  /\ query' = call
  /\ UNCHANGED <<input, algo, settings, rlt, timetable, ltWithRegions,
                 backing, layout, loop>>

\* tryToRemoveAntiknobs(path) and tryToRemoveAntiknobs(path, keepInside,
\* keepOutside) on the path at index k.
TryToRemoveAntiknobs(k, withKeep) ==
  /\ pc = "paths"
  /\ algo = "simplify"
  /\ OffsetsSoFar = 0
  /\ \E r \in { tryToRemoveAntiknobs(
                  result[k + 1],
                  IF withKeep THEN Given(input.keepInside) ELSE NotGiven,
                  IF withKeep THEN Given(others(result, k)) ELSE NotGiven) } :
       PathOutcome(IF r.ok THEN Ok(r.val.path) ELSE r, k,
                   Call("tryToRemoveAntiknobs", k, 0, result, 0))

TryToRemoveClockwiseCorners(k, withKeep) ==
  /\ pc = "paths"
  /\ algo = "simplify"
  /\ OffsetsSoFar = 0
  /\ \E r \in { tryToRemoveClockwiseCorners(
                  result[k + 1],
                  IF withKeep THEN Given(input.keepInside) ELSE NotGiven,
                  IF withKeep THEN Given(others(result, k)) ELSE NotGiven) } :
       PathOutcome(IF r.ok THEN Ok(r.val.path) ELSE r, k,
                   Call("tryToRemoveClockwiseCorners", k, 0, result, 0))

SimplifyPolygons ==
  /\ pc = "paths"
  /\ algo = "simplify"
  /\ OffsetsSoFar = 0
  /\ \E r \in { simplifyPaths(input.keepInside, result, 0) } :
       IF r.ok
       THEN /\ result' = r.val
            /\ pc' = pc
            /\ error' = error
       ELSE /\ result' = result
            /\ pc' = "failed"
            /\ error' = r.msg
  /\ query' = Call("simplifyPolygons", 0, 0, result, 0)
  /\ UNCHANGED <<input, algo, settings, rlt, timetable, ltWithRegions,
                 backing, layout, loop>>

OffsetPath(amt, k) ==
  /\ pc = "paths"
  /\ algo = "simplify"
  /\ OffsetsSoFar < MaxOffsets
  /\ PathOutcome(offsetPath(amt, result[k + 1]), k,
                 Call("offsetPath", k, amt, result, OffsetsSoFar + 1))

NextPath ==
  \/ \E k \in 0..(Len(result) - 1), withKeep \in BOOLEAN :
       TryToRemoveAntiknobs(k, withKeep)
  \/ \E k \in 0..(Len(result) - 1), withKeep \in BOOLEAN :
       TryToRemoveClockwiseCorners(k, withKeep)
  \/ SimplifyPolygons
  \/ \E k \in 0..(Len(result) - 1), amt \in OffsetAmounts : OffsetPath(amt, k)

SpecPath == InitPath /\ [][NextPath]_vars


-----------------------------------------------------------------------------
(* Claims about simplification and offsetting.                             *)

\* The points the claims look at: the grid lines, the middles of the cells
\* and a point beyond the grid on either side.
PathPoints ==
  LET cs == { -1, CellSide * PathCells + 1 }
              \cup { 2 * k : k \in 0..((CellSide * PathCells) \div 2) }
  IN { Pt(x, y) : x \in cs, y \in cs }

IsRectilinearCCW(path) == isRectilinear(path) /\ isPathCCW(path)

\* The segments from path[i] and from path[j] share a point.
segmentsMeet(path, i, j) ==
  LET s == mkRectiSegment(At(path, i), At(path, i + 1))
      t == mkRectiSegment(At(path, j), At(path, j + 1))
  IN /\ Max(Min(s.beginP.x, s.endP.x), Min(t.beginP.x, t.endP.x))
          <= Min(Max(s.beginP.x, s.endP.x), Max(t.beginP.x, t.endP.x))
     /\ Max(Min(s.beginP.y, s.endP.y), Min(t.beginP.y, t.endP.y))
          <= Min(Max(s.beginP.y, s.endP.y), Max(t.beginP.y, t.endP.y))

\* A path that neither crosses nor touches itself: only neighbouring
\* segments share a point.
IsSimple(path) ==
  /\ Len(path) >= 4
  /\ \A i \in 0..(Len(path) - 1), j \in 0..(Len(path) - 1) :
       (i < j /\ j # i + 1 /\ (j + 1) % Len(path) # i) => ~segmentsMeet(path, i, j)

\* A simple rectilinear path that runs counter-clockwise, with a corner at
\* every point.
IsOutline(path) ==
  IsSimple(path) /\ IsRectilinearCCW(path) /\ SegmentsAlternate(path)

\* No point lies strictly inside two of the paths.
InteriorsDisjoint(paths) ==
  \A p \in PathPoints, j \in 1..Len(paths), k \in 1..Len(paths) :
    j # k => ~(/\ pointInPath(p, paths[j], "ExcludeEdges")
               /\ pointInPath(p, paths[k], "ExcludeEdges"))

\* C16: after simplification of rectilinear counter-clockwise paths whose
\* interiors are disjoint, every point that was inside the original path
\* and outside all its siblings is still inside the simplified path, and
\* every point strictly outside keepInside or strictly inside a sibling is
\* still outside the simplified path.
C16_SimplifyPreservesSemantics ==
  (/\ pc = "paths"
   /\ query # None
   /\ query.op = "simplifyPolygons"
   /\ \A k \in 1..Len(query.before) : IsRectilinearCCW(query.before[k])
   /\ InteriorsDisjoint(query.before)) =>
    \A k \in 1..Len(result), p \in PathPoints :
      /\ (/\ pointInPath(p, query.before[k], "IncludeEdges")
          /\ \A j \in 1..Len(result) \ { k } :
               ~pointInPath(p, query.before[j], "IncludeEdges"))
           => pointInPath(p, result[k], "IncludeEdges")
      /\ (\/ ~pointInPolygon(p, input.keepInside)
          \/ \E j \in 1..Len(result) \ { k } :
               pointInPath(p, query.before[j], "ExcludeEdges"))
           => ~pointInPath(p, result[k], "IncludeEdges")


\* C16 on outlines: the same for simple paths with a corner at every point.
SimplifyPreservesOutlines ==
  (/\ pc = "paths"
   /\ query # None
   /\ query.op = "simplifyPolygons"
   /\ \A k \in 1..Len(query.before) : IsOutline(query.before[k])
   /\ InteriorsDisjoint(query.before)) =>
    \A k \in 1..Len(result), p \in PathPoints :
      /\ (/\ pointInPath(p, query.before[k], "IncludeEdges")
          /\ \A j \in 1..Len(result) \ { k } :
               ~pointInPath(p, query.before[j], "IncludeEdges"))
           => pointInPath(p, result[k], "IncludeEdges")
      /\ (\/ ~pointInPolygon(p, input.keepInside)
          \/ \E j \in 1..Len(result) \ { k } :
               pointInPath(p, query.before[j], "ExcludeEdges"))
           => ~pointInPath(p, result[k], "IncludeEdges")

MinEdgeLength(path) ==
  SetMin({ lengthOfSegment(eachRectiSegment(path)[k]) : k \in 1..Len(path) })

Removals ==
  { "tryToRemoveAntiknobs", "tryToRemoveClockwiseCorners", "simplifyPolygons" }

\* Every path of the last call that was rectilinear and counter-clockwise
\* before the call is so after it.
StaysRectilinearCCW ==
  \A k \in 1..Len(result) :
    IsRectilinearCCW(query.before[k]) => IsRectilinearCCW(result[k])

\* C17 as stated: every path that tryToRemoveAntiknobs,
\* tryToRemoveClockwiseCorners, simplifyPolygons or offsetPath makes of a
\* rectilinear counter-clockwise path is rectilinear and counter-clockwise,
\* after any number of removals.
C17_ClosureAnyOffset ==
  (pc \in { "paths", "nan" } /\ query # None) =>
    /\ pc = "nan" => ~IsRectilinearCCW(query.before[query.k + 1])
    /\ pc = "paths" => StaysRectilinearCCW

\* C17 on outlines: the removals keep a rectilinear counter-clockwise path
\* rectilinear and counter-clockwise, after any number of them; offsetPath
\* does so for a simple rectilinear counter-clockwise path with a corner at
\* every point when twice the amount is less than the length of every edge.
ClosureOnOutlines ==
  (pc \in { "paths", "nan" } /\ query # None) =>
    /\ query.op \in Removals => pc = "paths" /\ StaysRectilinearCCW
    /\ (/\ query.op = "offsetPath"
        /\ IsOutline(query.before[query.k + 1])
        /\ 2 * Abs(query.amt) < MinEdgeLength(query.before[query.k + 1])) =>
         pc = "paths" /\ StaysRectilinearCCW


\* C18 as stated: for every rectilinear path p and every d smaller than
\* the length of the shortest edge of p, offsetPath(d, offsetPath(-d, p)) = p.
C18_OffsetRoundTripExact ==
  (/\ pc \in { "paths", "nan" }
   /\ query # None
   /\ query.op = "offsetPath"
   /\ isRectilinear(query.before[query.k + 1])
   /\ 0 - query.amt < MinEdgeLength(query.before[query.k + 1])) =>
    /\ pc = "paths"
    /\ offsetPath(0 - query.amt, result[query.k + 1])
         = Ok(query.before[query.k + 1])

\* C18, amended: for every rectilinear path p with a corner at every point
\* and every d whose double is, in absolute value, smaller than the length
\* of the shortest edge of p, offsetPath(d, offsetPath(-d, p)) is p from its
\* third point on (each offsetPath returns the path from its second point
\* on).
C18_OffsetRoundTrip ==
  (/\ pc \in { "paths", "nan" }
   /\ query # None
   /\ query.op = "offsetPath"
   /\ isRectilinear(query.before[query.k + 1])
   /\ SegmentsAlternate(query.before[query.k + 1])
   /\ 2 * Abs(query.amt) < MinEdgeLength(query.before[query.k + 1])) =>
    /\ pc = "paths"
    /\ result[query.k + 1] # query.before[query.k + 1]
    /\ offsetPath(0 - query.amt, result[query.k + 1])
         = Ok(Rotate(query.before[query.k + 1], 2))

\* An L of three cells shrunk by 1: offsetPath(1, .) of the result is the L
\* from its third point on.
C18_Witness ==
  /\ pc = "paths"
  /\ query # None
  /\ query.op = "offsetPath"
  /\ query.amt = -1
  /\ query.before = << << Pt(0, 0), Pt(0, 8), Pt(8, 8), Pt(8, 4), Pt(4, 4), Pt(4, 0) >> >>
  /\ result = << << Pt(1, 7), Pt(7, 7), Pt(7, 5), Pt(3, 5), Pt(3, 1), Pt(1, 1) >> >>
  /\ offsetPath(1, result[1]).val
       = << Pt(8, 8), Pt(8, 4), Pt(4, 4), Pt(4, 0), Pt(0, 0), Pt(0, 8) >>


-----------------------------------------------------------------------------
(* The single-atom scenario: Node([Atom "ab"]) measured as                 *)
(* {left 0, right 10, top -8, bottom 2}.                                   *)

\* The layout of the single atom has been asked for its fragments by one of
\* L1S, L1P and Blocks; L1S and L1P run with an ideal leading of 0.
SingleAtomLaidOut ==
  /\ input = SingleAtom
  /\ query # None /\ query.op = "fragmentsInfo"
  /\ algo \in {"L1S", "L1P", "Blocks"}
  /\ algo \in {"L1S", "L1P"} => settings.idealLeading = 0

SingleAtomFragments(rect) ==
  Ok(<< [text |-> "ab", rect |-> rect, lineNo |-> 0] >>)

\* C20 as stated: the single atom gives one fragment at lineNo 0 whose
\* rectangle is {left 0, right 10, top 0, bottom 10}, the same in L1S, L1P
\* and Blocks.
C20_SingleAtomAtOrigin ==
  SingleAtomLaidOut => query.result = SingleAtomFragments(MkRect(0, 10, 0, 10))

\* C20 (amended): the single atom gives one fragment at lineNo 0 whose
\* rectangle is the measured one, {left 0, right 10, top -8, bottom 2}, the
\* same in L1S, L1P (ideal leading 0) and Blocks.
C20_SingleAtom ==
  /\ input = SingleAtom /\ algo \in {"L1S", "L1P", "Blocks"} => pc # "failed"
  /\ SingleAtomLaidOut => query.result = SingleAtomFragments(SingleAtomRect)

C20_Witness ==
  /\ SingleAtomLaidOut
  /\ algo = "L1S"
  /\ query.result.ok
  /\ Len(query.result.val) = 1


-----------------------------------------------------------------------------
(* Rocks layout with outlines, L1S+ (rocks-layout/layout.ts,               *)
(* OutlinedRocksLayout).  The L1S layout runs first; every Wrap then gets  *)
(* an outline made of the padded rectangles of its region.                 *)

\* The node root with the fields of upd put in place of its own.
WithFields(root, upd) ==
  [f \in DOMAIN root \cup DOMAIN upd |->
     IF f \in DOMAIN upd THEN upd[f] ELSE root[f]]

\* The inner go of OutlinedRocksLayout.layout; order is the order in which
\* the interval tree of fromRectangles reports its segments.
RECURSIVE outlineGo(_, _, _, _, _, _)
outlineGo(root, outline, b, tt, enableSimplification, order) ==
  CASE root.type \in {"JoinH", "JoinV"} ->
         LET recur(lhsOutline, rhsOutline) ==
               Bind(outlineGo(root.lhs, lhsOutline, b, tt,
                              enableSimplification, order),
                    LAMBDA lhs :
                      Bind(outlineGo(root.rhs, rhsOutline, b, tt,
                                     enableSimplification, order),
                           LAMBDA rhs :
                             Ok(WithFields(root, [lhs |-> lhs, rhs |-> rhs]))))
             outlines(lhsRects, rhsRects) ==
               Bind(fromRectanglesIn(lhsRects, order),
                    LAMBDA lhsOutline :
                      Bind(fromRectanglesIn(rhsRects, order),
                           LAMBDA rhsOutline :
                             IF enableSimplification
                             THEN Bind(simplifyPolygons(outline,
                                         << lhsOutline, rhsOutline >>),
                                       LAMBDA s : recur(s[1], s[2]))
                             ELSE recur(lhsOutline, rhsOutline)))
         IN Bind(iterRectsInRegion(b, tt, regionOfLayoutTree(root.lhs)),
                 LAMBDA lhsRects :
                   Bind(iterRectsInRegion(b, tt, regionOfLayoutTree(root.rhs)),
                        LAMBDA rhsRects : outlines(lhsRects, rhsRects)))
    [] root.type \in {"Atom", "Spacer"} -> Ok(root)
    [] root.type = "Wrap" ->
         Bind(offsetPolygon(-root.padding, outline),
              LAMBDA childOutline :
                Bind(outlineGo(root.child, childOutline, b, tt,
                               enableSimplification, order),
                     LAMBDA child :
                       Ok(WithFields(root, [child |-> child,
                                            outline |-> outline]))))

\* OutlinedRocksLayout.layout after the L1S layout has returned.
outlinedLayout(layoutTree, b, tt, enableSimplification, order) ==
  Bind(boundingBox(b, tt, layoutTree),
       LAMBDA outerBBox :
         outlineGo(layoutTree,
                   IF outerBBox = None THEN <<>> ELSE << pathOfRect(outerBBox) >>,
                   b, tt, enableSimplification, order))


-----------------------------------------------------------------------------
(* The L1S+ layout run on a measured tree: the L1S layout, then the        *)
(* outlines.                                                               *)

\* Largest measured tree laid out with outlines.
OutlinedSize == 4

\* An atom measured below the baseline of the others: its top is the
\* bottom of AtomB.
AtomC == Atom("c", MkRect(0, 6, 2, 12))

\* Two atoms under an inner node beside a third atom.
OutlinedAtoms == { AtomA, AtomB, AtomC }
OutlinedPaddings == { 0, 2 }
OutlinedScenarios ==
  UNION { { Node(<< Node(<< x, y >>, p1), AtomA >>, p2),
            Node(<< AtomA, Node(<< x, y >>, p1) >>, p2) } :
          x \in OutlinedAtoms, y \in OutlinedAtoms,
          p1 \in OutlinedPaddings, p2 \in OutlinedPaddings }

OutlinedInputs ==
  TreesUpTo(OutlinedSize, LayoutLeaves, LayoutDecos) \cup OutlinedScenarios

OutlinedSettings ==
  [translateWraps : BOOLEAN, idealLeading : IdealLeadings,
   enableSimplification : BOOLEAN]

InitOutlined ==
  /\ input \in OutlinedInputs
  /\ algo = "L1S+"
  /\ settings \in OutlinedSettings
  /\ pc = "start"
  /\ Idle

\* OutlinedRocksLayout.layout from the return of the L1S layout on.
OutlineLayout(order) ==
  /\ pc = "done"
  /\ algo = "L1S+"
  /\ \E r \in { outlinedLayout(ltWithRegions, backing, timetable,
                               settings.enableSimplification, order) } :
       IF ~r.ok
       THEN /\ Fail(r.msg)
            /\ UNCHANGED result
       ELSE /\ result' = [type |-> "OutlinedRocksLayoutResult",
                          layoutTree |-> r.val]
            /\ pc' = "outlined"
            /\ error' = error
  /\ UNCHANGED <<input, algo, settings, rlt, timetable, ltWithRegions, backing,
                 layout, loop, query>>

NextOutlined ==
  \/ RocksLayoutTree
  \/ RocksStackLine
  \/ RocksReturn
  \/ \E order \in SearchOrders : OutlineLayout(order)

SpecOutlined == InitOutlined /\ [][NextOutlined]_vars


-----------------------------------------------------------------------------
(* Polygon containment in the L1S+ result.                                 *)

\* The Atom leaves beneath a node.
RECURSIVE AtomsOf(_)
AtomsOf(root) ==
  CASE root.type = "Wrap" -> AtomsOf(root.child)
    [] root.type \in {"JoinH", "JoinV"} -> AtomsOf(root.lhs) \cup AtomsOf(root.rhs)
    [] root.type = "Atom" -> { root }
    [] OTHER -> {}

\* The polygon with every coordinate doubled, so that the centres of the
\* unit cells are points of the grid.
Doubled(polygon) ==
  [k \in 1..Len(polygon) |->
     [j \in 1..Len(polygon[k]) |-> Pt(2 * polygon[k][j].x, 2 * polygon[k][j].y)]]

\* The rectangle lies in the polygon: its corners and the centre of each
\* of its unit cells do.
RectInPolygon(rect, polygon) ==
  /\ \A x \in {rect.left, rect.right}, y \in {rect.top, rect.bottom} :
       pointInPolygon(Pt(x, y), polygon)
  /\ \A x \in rect.left..(rect.right - 1), y \in rect.top..(rect.bottom - 1) :
       pointInPolygon(Pt(2 * x + 1, 2 * y + 1), Doubled(polygon))

\* The rectangle of the fragment of an Atom leaf: fragmentsInfo reads it
\* from the backing.
FragmentRect(atom) == getByIndex(backing, atom.stackRef.index)

\* Beneath every Wrap of the result the rectangle of every Atom fragment
\* lies in the outline of the Wrap.
AtomsInsideOutlines ==
  \A k \in 1..Len(WrapsOf(result.layoutTree)) :
    \A atom \in AtomsOf(WrapsOf(result.layoutTree)[k]) :
      RectInPolygon(FragmentRect(atom), WrapsOf(result.layoutTree)[k].outline)

\* C15: in an L1S+ layout result, with or without simplification, the
\* rectangle of every Atom fragment beneath a Wrap lies in the outline of
\* that Wrap.
C15_AtomsInsideOutline ==
  pc = "outlined" => AtomsInsideOutlines

\* Two padded rectangles beneath one Wrap meet in a corner only.
CornerTouchBeneathWrap ==
  \E k \in 1..Len(WrapsOf(result.layoutTree)) :
    \E W \in { WrapsOf(result.layoutTree)[k] } :
      \E r \in { iterRectsInRegion(backing, timetable, W.region) } :
        r.ok /\ \E i, j \in 1..Len(r.val) : MeetAtCorner(r.val[i], r.val[j])

\* Without simplification, and with it where no two padded rectangles
\* beneath a Wrap meet in a corner only, the rectangles lie in the outlines.
AtomsInsideUnlessCornerTouch ==
  pc = "outlined" /\ (~settings.enableSimplification \/ ~CornerTouchBeneathWrap)
    => AtomsInsideOutlines


-----------------------------------------------------------------------------
(* The demo's layout entry point (demo/layout.ts): the one place that      *)
(* takes an abort signal.  It lays the tree out in a web worker or inline  *)
(* and settles a promise.  Here query holds the AbortSignal (None when no  *)
(* signal is given): whether it is aborted and whether onAbort is          *)
(* registered on it; result holds the promise; the layout variables are    *)
(* the state of the layout that runs, in the worker or inline.  With a     *)
(* worker, pc = "posted" says that the worker has posted its answer (error *)
(* holds the failure, or none for a success) and that the message event    *)
(* has not run yet; pc = "late" says the same of a worker that onAbort has *)
(* terminated since; "done", "failed" and "terminated" are reached with    *)
(* the worker terminated.  Inline, pc = "awaiting" says that the layout    *)
(* has returned and that the code after the await has not run yet.         *)

\* Largest measured tree laid out through the entry point.
AbortSize == 3

AbortInputs == TreesUpTo(AbortSize, LayoutLeaves, LinesDecos)

AbortSettings ==
  [translateWraps : {TRUE}, idealLeading : {0},
   enableSimplification : BOOLEAN, useWebWorkers : BOOLEAN]

Signal(aborted, listener) == [aborted |-> aborted, listener |-> listener]

Pending == [status |-> "pending"]
Resolved == [status |-> "done"]
Rejected(reason) == [status |-> "rejected", reason |-> reason]

InitAbort ==
  /\ input \in AbortInputs
  /\ algo \in RocksAlgorithms
  /\ settings \in AbortSettings
  /\ algo = "L1S" => ~settings.enableSimplification
  /\ pc = "start"
  /\ rlt = None /\ timetable = NoTimetable /\ ltWithRegions = None
  /\ backing = NoBacking /\ layout = <<>> /\ loop = NoLoop
  /\ result = None
  /\ error = NoError
  /\ query \in { None, Signal(FALSE, FALSE), Signal(TRUE, FALSE) }

\* resolve(...) and reject(...): a promise that is settled stays as it is.
settle(promise, outcome) == IF promise = Pending THEN outcome ELSE promise

\* As removeListener, but the listener stays.
keepListener(abortSignal) == abortSignal

\* removeEventListener("abort", onAbort), where a signal was given.
removeListener(abortSignal) ==
  IF abortSignal = None THEN None ELSE [abortSignal EXCEPT !.listener = FALSE]

\* The worker posts its answer: a failure, or none for a success.
PostMessage(msg) ==
  /\ pc' = "posted"
  /\ error' = msg
  /\ UNCHANGED <<result, query>>

\* The layout throws: the worker posts the failure; inline, the promise is
\* rejected with the error in the catch and the listener removed in the
\* finally.
RejectWith(msg) ==
  IF settings.useWebWorkers
  THEN PostMessage(msg)
  ELSE /\ result' = settle(result, Rejected(msg))
       /\ query' = removeListener(query)
       /\ pc' = "failed"
       /\ error' = msg

\* The layout returns: the worker posts the success; inline, the result
\* is awaited, which gives the turn back to the caller of layout().
ResolveDone ==
  IF settings.useWebWorkers
  THEN PostMessage(NoError)
  ELSE /\ pc' = "awaiting"
       /\ UNCHANGED <<result, query, error>>

\* onAbort with a worker keeps the worker.
onAbortKeepsWorker(useWebWorkers, at) == at

\* Where the layout stands after onAbort ran: with a worker,
\* worker.terminate() ends it where it is; inline, onAbort only rejects.
onAbort(useWebWorkers, at) ==
  IF useWebWorkers THEN "terminated" ELSE at

\* layout() is called: the promise is made, onAbort is registered where a
\* signal is given, and the work starts (posted to the worker, or inline).
Layout ==
  /\ pc = "start"
  /\ result' = Pending
  /\ query' = IF query = None THEN None ELSE [query EXCEPT !.listener = TRUE]
  /\ pc' = "begin"
  /\ UNCHANGED <<input, algo, settings, rlt, timetable, ltWithRegions, backing,
                 layout, loop, error>>

\* algo.layout up to its line-stacking loop.
BeginLayout ==
  /\ pc = "begin"
  /\ \E r \in { rocksLayoutTree(input, settings.translateWraps) } :
       IF ~r.ok
       THEN /\ RejectWith(r.msg)
            /\ UNCHANGED <<rlt, timetable, ltWithRegions, backing, layout, loop>>
       ELSE /\ rlt' = r.val.rlt
            /\ timetable' = r.val.timetable
            /\ ltWithRegions' = r.val.ltWithRegions
            /\ backing' = r.val.backing
            /\ layout' = r.val.layout
            /\ loop' = [i |-> 0, lastLineOffset |-> 0, done |-> EMPTY]
            /\ pc' = "stacking"
            /\ UNCHANGED <<result, error, query>>
  /\ UNCHANGED <<input, algo, settings>>

\* One pass of the line-stacking loop; the loop has no token to look at.
StackLine ==
  /\ pc = "stacking"
  /\ loop.i < Len(layout)
  /\ \E r \in { rocksStackLine(backing, timetable, loop, layout[loop.i + 1],
                               settings.idealLeading) } :
       IF ~r.ok
       THEN /\ RejectWith(r.msg)
            /\ UNCHANGED <<backing, loop>>
       ELSE /\ backing' = r.val.backing
            /\ loop' = r.val.loop
            /\ UNCHANGED <<pc, result, error, query>>
  /\ UNCHANGED <<input, algo, settings, rlt, timetable, ltWithRegions, layout>>

\* The loop is over: L1S+ makes its outlines (simplifyPath's loop runs to
\* its fixed point, with no token either), and the promise is resolved.
LayoutReturn(order) ==
  /\ pc = "stacking"
  /\ loop.i = Len(layout)
  /\ \E r \in { IF algo = "L1S+"
                THEN outlinedLayout(ltWithRegions, backing, timetable,
                                    settings.enableSimplification, order)
                ELSE Ok(ltWithRegions) } :
       IF ~r.ok THEN RejectWith(r.msg) ELSE ResolveDone
  /\ UNCHANGED <<input, algo, settings, rlt, timetable, ltWithRegions, backing,
                 layout, loop>>

\* Inline, after the await: the promise is resolved and the listener
\* removed in the finally.
Resume ==
  /\ ~settings.useWebWorkers
  /\ pc = "awaiting"
  /\ result' = settle(result, Resolved)
  /\ query' = removeListener(query)
  /\ pc' = "done"
  /\ UNCHANGED <<input, algo, settings, rlt, timetable, ltWithRegions, backing,
                 layout, loop, error>>

WorkerFailed == "Error: worker error"

\* worker.onmessage: the answer of the worker arrives.  The listener is
\* removed, the worker terminated and the promise settled.  The message of
\* a worker that onAbort terminated meanwhile may still arrive.
OnMessage ==
  /\ settings.useWebWorkers
  /\ pc \in {"posted", "late"}
  /\ query' = removeListener(query)
  /\ result' = settle(result, IF error = NoError THEN Resolved
                              ELSE Rejected(error))
  /\ pc' = IF pc = "late" THEN "terminated"
           ELSE IF error = NoError THEN "done" ELSE "failed"
  /\ UNCHANGED <<input, algo, settings, rlt, timetable, ltWithRegions, backing,
                 layout, loop, error>>

\* worker.onerror: the worker fails without an answer.
OnError ==
  /\ settings.useWebWorkers
  /\ pc \in {"begin", "stacking"}
  /\ query' = removeListener(query)
  /\ result' = settle(result, Rejected(WorkerFailed))
  /\ pc' = "failed"
  /\ error' = WorkerFailed
  /\ UNCHANGED <<input, algo, settings, rlt, timetable, ltWithRegions, backing,
                 layout, loop>>

\* The signal is aborted.  A layout that runs inline gives the turn to the
\* caller only at its await, when the loops have run, so the abort comes
\* before it, at the await or after it; a worker runs beside the caller.  onAbort runs if it is registered; the
\* answer a worker had posted by then is dropped or still arrives.
Abort ==
  /\ query # None
  /\ ~query.aborted
  /\ settings.useWebWorkers \/ pc \in {"start", "awaiting", "done", "failed"}
  /\ query' = Signal(TRUE, FALSE)
  /\ IF query.listener
     THEN /\ pc' \in { onAbort(settings.useWebWorkers, pc) }
                       \cup (IF pc = "posted" THEN { "late" } ELSE {})
          /\ result' = settle(result, Rejected("aborted"))
     ELSE UNCHANGED <<pc, result>>
  /\ UNCHANGED <<input, algo, settings, rlt, timetable, ltWithRegions, backing,
                 layout, loop, error>>

NextAbort ==
  \/ Layout
  \/ BeginLayout
  \/ StackLine
  \/ \E order \in SearchOrders : LayoutReturn(order)
  \/ Resume
  \/ OnMessage
  \/ OnError
  \/ Abort

SpecAbort == InitAbort /\ [][NextAbort]_vars

\* The token is aborted while a layout is under way.
AbortedUnderWay ==
  query # None /\ query.aborted /\ pc \in {"begin", "stacking"}

-----------------------------------------------------------------------------
(* Line stacking: where a pass of the line-stacking loop puts its line.    *)

\* A pass of the line-stacking loop of L1P or L1S places a line.
StackingPass ==
  /\ pc = "stacking"
  /\ algo \in {"L1P", "L1S"}
  /\ loop'.i = loop.i + 1

\* The leading the pass computes for its line against the lines stacked
\* before it.
ComputedLeading ==
  IF algo = "L1P"
  THEN leadingRegion(loop.done, layout[loop.i + 1].region)
  ELSE leading(backing, timetable, loop.done, layout[loop.i + 1].region).val

\* C21 as stated: each line after the first is placed at
\* max(leading, idealLeading) below the previous line, leading being the
\* leading computed for the new line against all lines stacked before.
C21_PlacedLeadingBelowPrevious ==
  [][StackingPass /\ loop.i >= 1 =>
       loop'.lastLineOffset
         = loop.lastLineOffset + Max(ComputedLeading, settings.idealLeading)]_vars

\* C21 (amended): every line, the first included, is placed at
\* max(leading - previous offset, idealLeading) below the previous line's
\* offset, leading being the offset from the top computed for the new line
\* against all lines stacked before.
C21_PlacedEffectiveLeadingBelowPrevious ==
  [][StackingPass =>
       /\ loop'.lastLineOffset
            = loop.lastLineOffset
                + Max(ComputedLeading - loop.lastLineOffset, settings.idealLeading)
       /\ algo = "L1P" =>
            layout'[loop.i + 1].region
              = pebbleTranslateRegion(layout[loop.i + 1].region,
                                      Vec(0, loop'.lastLineOffset))]_vars

\* Three lines of atoms are stacked with no ideal leading: the third lies
\* at its leading, two lines' heights from the top.
C21_Witness ==
  /\ pc = "stacking"
  /\ algo = "L1P"
  /\ loop.i = 3
  /\ settings.idealLeading = 0
  /\ loop.lastLineOffset >= 20
  /\ \A k \in 1..3 : \E j \in 1..Len(layout[k].region) :
       layout[k].region[j].type = "Stack"


-----------------------------------------------------------------------------
(* The empty tree: a Node with no children.                                *)

EmptyTree == input.type = "Node" /\ input.children = <<>>

Asked(op) == query # None /\ query.op = op

-----------------------------------------------------------------------------
(* Regions of the Rocks layout compose by adjacency.                       *)

\* The indices of every sub-tree are a contiguous range: the two sides of a
\* JoinH or JoinV are adjacent and the join spans both, a Wrap spans its
\* child.
RECURSIVE RegionsCompose(_)
RegionsCompose(t) ==
  CASE t.type \in {"JoinH", "JoinV"} ->
         LET a == regionOfLayoutTree(t.lhs)
             b == regionOfLayoutTree(t.rhs)
         IN /\ a.range.end = b.range.begin
            /\ t.region.range = [begin |-> a.range.begin, end |-> b.range.end]
            /\ RegionsCompose(t.lhs)
            /\ RegionsCompose(t.rhs)
    [] t.type = "Wrap" ->
         /\ t.region.range = regionOfLayoutTree(t.child).range
         /\ RegionsCompose(t.child)
    [] OTHER -> TRUE

\* The regions of lines from..to of the layout joined, as a range and a
\* depth.
JoinedLines(from, to) ==
  [range |-> [begin |-> layout[from].region.range.begin,
              end |-> layout[to].region.range.end],
   depth |-> SetMin({ layout[k].region.depth : k \in from..to })]

\* The lines follow one another in the backing, and the region stacked so
\* far is the join of the lines stacked.
LinesCompose ==
  /\ \A k \in 1..Len(layout) : layout[k].region # EMPTY
  /\ \A k \in 1..(Len(layout) - 1) :
       layout[k].region.range.end = layout[k + 1].region.range.begin
  /\ loop.done = IF loop.i = 0 THEN EMPTY ELSE JoinedLines(1, loop.i)

\* C23: during the Rocks layout of a valid tree the indices of a sub-tree
\* are a contiguous range, so no joinRegions(a, b) fails its adjacency
\* assertion, and the joined region's depth is the smaller of the two.
C23_RegionsComposeByAdjacency ==
  (algo = "L1S" /\ ValidInput) =>
    /\ error # AssertFailed
    /\ pc \in {"stacking", "done"} =>
         /\ RegionsCompose(ltWithRegions)
         /\ LinesCompose

\* Two lines are stacked and joined, and one of them was itself joined
\* from two sides.
C23_Witness ==
  /\ algo = "L1S"
  /\ pc = "done"
  /\ loop.i >= 2
  /\ loop.done = JoinedLines(1, 2)
  /\ \E k \in 1..2 : layout[k].region.range.end - layout[k].region.range.begin >= 2

-----------------------------------------------------------------------------
(* The chunked leading search against the exhaustive one.                  *)

\* The largest offset over all pairs (a in region a, b in region bRegion)
\* of rectangles that overlap horizontally once inflated, and 0 when there
\* is no such pair.
exhaustiveLeading(b, tt, a, bRegion) ==
  IF a = EMPTY \/ bRegion = EMPTY THEN 0
  ELSE SetMax({0} \cup
              UNION { offsetsOnB(b, tt, a, bIdx, enumerateIndices(a)) :
                        bIdx \in { i \in enumerateIndices(bRegion) :
                                     ~isNumber(b, i) } })

\* The line the next stacking pass of L1S tests against the region done.
NextLineToStack ==
  /\ algo \in RocksAlgorithms
  /\ pc = "stacking"
  /\ loop.i < Len(layout)

\* C24: the chunked leading search with early termination returns the
\* exhaustive maximum over the pairs of the done region and the new line.
C24_ChunkedLeadingIsExhaustive ==
  NextLineToStack =>
    \E r \in { leading(backing, timetable, loop.done, layout[loop.i + 1].region) } :
      /\ r.ok
      /\ r.val = exhaustiveLeading(backing, timetable, loop.done,
                                   layout[loop.i + 1].region)

\* Whenever the chunked search returns, it returns the exhaustive maximum;
\* it returns only when the new line holds no rectangle or nothing is
\* stacked yet.
C24_ReturnsOnlyWithoutPairs ==
  NextLineToStack =>
    \E r \in { leading(backing, timetable, loop.done, layout[loop.i + 1].region) } :
      IF r.ok
      THEN /\ r.val = 0
           /\ exhaustiveLeading(backing, timetable, loop.done,
                                layout[loop.i + 1].region) >= 0
           /\ \/ loop.done = EMPTY
              \/ \A i \in enumerateIndices(layout[loop.i + 1].region) :
                   isNumber(backing, i)
      ELSE r.msg = NotIterable

-----------------------------------------------------------------------------
(* The Backing on its own: any sequence of pushRect, pushSpacer and        *)
(* translateRange (rocks-layout/backing.ts).  backing holds the object,    *)
(* query the last call and error what it threw.                            *)

BackingSize == 3
BackingSpan == 200

BackingRects == { MkRect(0, 10, 2, 12), MkRect(0, 10, 90, 130) }
BackingPaddings == { 0, 4 }
BackingVectors == { Vec(0, -100), Vec(0, 150) }

\* The rectangles of b lie within the span the model follows.
WithinSpan(b) ==
  \A k \in 1..Len(b.elements) :
    ~b.elements[k].spacer =>
      /\ b.elements[k].rect.top >= -BackingSpan
      /\ b.elements[k].rect.bottom <= BackingSpan

InitBacking ==
  /\ input = None
  /\ algo \in {"backing"}
  /\ settings = NoSettings
  /\ pc = "backing"
  /\ rlt = None
  /\ timetable = NoTimetable
  /\ ltWithRegions = None
  /\ backing = newBacking
  /\ layout = <<>>
  /\ loop = NoLoop
  /\ result = None
  /\ error = NoError
  /\ query = None

PushRect ==
  /\ pc = "backing"
  /\ Len(backing.elements) < BackingSize
  /\ \E r \in BackingRects, maxPadding \in BackingPaddings :
       \E pushed \in { pushRect(backing, r, maxPadding) } :
         /\ backing' = pushed.backing
         /\ query' = [op |-> "pushRect"]
  /\ error' = NoError
  /\ UNCHANGED <<input, algo, settings, pc, rlt, timetable, ltWithRegions,
                 layout, loop, result>>

PushSpacer ==
  /\ pc = "backing"
  /\ Len(backing.elements) < BackingSize
  /\ \E pushed \in { pushSpacer(backing, 4) } :
       /\ backing' = pushed.backing
       /\ query' = [op |-> "pushSpacer"]
  /\ error' = NoError
  /\ UNCHANGED <<input, algo, settings, pc, rlt, timetable, ltWithRegions,
                 layout, loop, result>>

\* translateRange(range, v); a range that reaches beyond the elements
\* fails the assertion before anything is moved.
TranslateRange ==
  /\ pc = "backing"
  /\ \E begin \in 0..Len(backing.elements),
        end \in 0..(Len(backing.elements) + 1),
        v \in BackingVectors :
       /\ begin <= end
       /\ \E r \in { translateRange(backing, [begin |-> begin, end |-> end], v) } :
            IF r.ok
            THEN /\ WithinSpan(r.val)
                 /\ backing' = r.val
                 /\ error' = NoError
            ELSE /\ backing' = backing
                 /\ error' = r.msg
       /\ query' = [op |-> "translateRange"]
  /\ UNCHANGED <<input, algo, settings, pc, rlt, timetable, ltWithRegions,
                 layout, loop, result>>

NextBacking ==
  \/ PushRect
  \/ PushSpacer
  \/ TranslateRange

SpecBacking == InitBacking /\ [][NextBacking]_vars

\* The chunks index i belongs to.
ChunksOf(b, i) == { c \in DOMAIN b.chunks : i \in b.chunks[c] }

\* C25: after any pushRect, pushSpacer and translateRange, a rectangle's
\* index is in chunk c exactly when c lies in the chunk range of the
\* rectangle's present position and maxPadding, a spacer's index is in no
\* chunk, and every chunk from minChunk to maxChunk is in the map.
C25_ChunksFollowRects ==
  algo = "backing" =>
    /\ \A i \in 0..(Len(backing.elements) - 1) :
         ChunksOf(backing, i) =
           IF isNumber(backing, i) THEN {}
           ELSE LET e == backing.elements[i + 1]
                IN ((e.rect.top - e.maxPadding) \div 100)
                     ..((e.rect.bottom + e.maxPadding) \div 100)
    /\ \A c \in backing.minChunk..backing.maxChunk : c \in DOMAIN backing.chunks
    /\ \A c \in DOMAIN backing.chunks : backing.chunks[c] \subseteq
                                          0..(Len(backing.elements) - 1)

\* A translateRange has just moved a rectangle out of every chunk it was
\* pushed into, next to a spacer, with chunks below and above chunk 0.
C25_Witness ==
  /\ algo = "backing"
  /\ query # None
  /\ query.op = "translateRange"
  /\ error = NoError
  /\ backing.minChunk <= -2
  /\ backing.maxChunk >= 1
  /\ \E i, j \in 0..(Len(backing.elements) - 1) :
       /\ isNumber(backing, j)
       /\ ~isNumber(backing, i)
       /\ ChunksOf(backing, i) = {-2}

-----------------------------------------------------------------------------
(* The removals keep a path within keepInside and out of keepOutside.      *)

\* The interior of the path at index k (from 0) of paths lies within
\* keepInside and meets the interior of no other path.
KeptApart(paths, k, keepInside) ==
  \A p \in PathPoints :
    pointInPath(p, paths[k + 1], "ExcludeEdges") =>
      /\ pointInPolygon(p, keepInside)
      /\ \A j \in 1..Len(paths) :
           j # k + 1 => ~pointInPath(p, paths[j], "ExcludeEdges")

\* The last call was one of the two removals, and it left what the removal
\* given keepInside and the other paths as keepOutside leaves.
RemovedWithKeep ==
  /\ pc = "paths"
  /\ query # None
  /\ query.op \in { "tryToRemoveAntiknobs", "tryToRemoveClockwiseCorners" }
  /\ \E r \in { IF query.op = "tryToRemoveAntiknobs"
                 THEN tryToRemoveAntiknobs(query.before[query.k + 1],
                                           Given(input.keepInside),
                                           Given(others(query.before, query.k)))
                 ELSE tryToRemoveClockwiseCorners(
                        query.before[query.k + 1],
                        Given(input.keepInside),
                        Given(others(query.before, query.k))) } :
       /\ r.ok
       /\ result = [query.before EXCEPT ![query.k + 1] = r.val.path]

\* C26: a removal given keepInside and keepOutside changes the path only
\* by areas that are free of the path, within keepInside and free of
\* keepOutside; so a path whose interior lay within keepInside and apart
\* from every keepOutside path before the removal does so after it.
C26_RemovalsKeepApart ==
  (RemovedWithKeep /\ KeptApart(query.before, query.k, input.keepInside))
    => KeptApart(result, query.k, input.keepInside)

\* A removal given keepInside and keepOutside has changed a path that has a
\* sibling.
C26_Witness ==
  /\ RemovedWithKeep
  /\ KeptApart(query.before, query.k, input.keepInside)
  /\ Len(result) = 2
  /\ result # query.before

\* C26 on outlines: the same when the path and its siblings are simple
\* paths with a corner at every point.
RemovalsKeepOutlinesApart ==
  (/\ RemovedWithKeep
   /\ KeptApart(query.before, query.k, input.keepInside)
   /\ \A k \in 1..Len(query.before) : IsOutline(query.before[k]))
    => KeptApart(result, query.k, input.keepInside)

-----------------------------------------------------------------------------
(* Pebble's spaceBetween against the Timetable's, and L1P against L1S.     *)

\* The stacks of the lines of an L1P layout, each with its index among the
\* leaves of the reassociated tree and its cells.
PebbleLeaves ==
  UNION { { [index |-> SumSeq([k \in 1..(i - 1) |-> Len(layout[k].region)]) + j - 1,
             cells |-> layout[i].region[j].cells] :
              j \in { n \in 1..Len(layout[i].region) :
                        layout[i].region[n].type = "Stack" } } :
            i \in 1..Len(layout) }

\* Pebble's spaceBetween of every two stacks is the Timetable's
\* spaceBetween of their columns.
SpaceBetweenAgrees ==
  (algo = "L1P" /\ pc \in {"stacking", "done"}) =>
    \E tt \in { fromLayoutTree(rlt).timetable } :
      \A a \in PebbleLeaves, b \in PebbleLeaves :
        a.index # b.index =>
          spaceBetween(tt, a.index, b.index)
            = Ok(pebbleSpaceBetween(a.cells, b.cells))

\* The line-stacking loop of RocksLayout.layout from the loop state lp on.
RECURSIVE rocksStackLines(_, _, _, _, _)
rocksStackLines(b, tt, lp, layoutLines, idealLeading) ==
  IF ~(lp.i < Len(layoutLines)) THEN Ok(b)
  ELSE Bind(rocksStackLine(b, tt, lp, layoutLines[lp.i + 1], idealLeading),
            LAMBDA r : rocksStackLines(r.backing, tt, r.loop, layoutLines,
                                       idealLeading))

\* The fragments of RocksLayout.layout(layoutTree) under the settings s.
rocksLayoutFragments(layoutTree, s) ==
  Bind(rocksLayoutTree(layoutTree, s.translateWraps),
       LAMBDA t :
         Bind(rocksStackLines(t.backing, t.timetable, NoLoop, t.layout,
                              s.idealLeading),
              LAMBDA b :
                Bind(rocksFragments(t.ltWithRegions, b, 0),
                     LAMBDA f : Ok(f.out))))

\* L1P has returned the fragments of its layout.
PebbleFragmentsKnown ==
  /\ algo = "L1P"
  /\ pc = "done"
  /\ query # None
  /\ query.op = "fragmentsInfo"

\* C27: for every reassociated tree and every two Atoms, Pebble's
\* spaceBetween and Timetable.spaceBetween return the same pair of
\* paddings, so L1S places every fragment of the same input under the same
\* settings at the rectangle L1P places it at.
C27_PebbleIsRocks ==
  /\ SpaceBetweenAgrees
  /\ PebbleFragmentsKnown =>
       rocksLayoutFragments(input, settings) = query.result

\* The paddings agree, and L1S places the fragments where L1P does
\* whenever it returns; it fails only with the TypeError of the chunked
\* leading search.
PebbleIsRocksWhenRocksReturns ==
  /\ SpaceBetweenAgrees
  /\ PebbleFragmentsKnown =>
       \E r \in { rocksLayoutFragments(input, settings) } :
         IF r.ok THEN r = query.result ELSE r.msg = NotIterable

-----------------------------------------------------------------------------
(* simplifyPath ends: every removal takes points off the path.             *)

\* simplifyPath with the rounds of its loop counted: the path after it and
\* the number of calls that returned true.
RECURSIVE simplifyPathRounds(_, _, _, _)
simplifyPathRounds(keepInside, keepOutside, path, rounds) ==
  Bind(tryToRemoveAntiknobs(path, Given(keepInside), Given(keepOutside)),
       LAMBDA k :
         IF k.removed
         THEN simplifyPathRounds(keepInside, keepOutside, k.path, rounds + 1)
         ELSE Bind(tryToRemoveClockwiseCorners(k.path, Given(keepInside),
                                               Given(keepOutside)),
                   LAMBDA c :
                     IF c.removed
                     THEN simplifyPathRounds(keepInside, keepOutside, c.path,
                                             rounds + 1)
                     ELSE Ok([path |-> c.path, rounds |-> rounds])))

\* The outcome r of a removal on path: it read no point beyond the path,
\* and when it returns, it returns true exactly when it took points off the
\* path.
Shrinks(r, path) ==
  IF r.ok
  THEN /\ r.val.removed => Len(r.val.path) < Len(path)
       /\ ~r.val.removed => r.val.path = path
  ELSE r.msg # UndefinedPoint

\* The removals the program can make next: on a path of the result, with
\* or without keepInside and the other paths as keepOutside.
RemovalsPossible ==
  pc = "paths" /\ algo = "simplify" /\ OffsetsSoFar = 0

\* C28: simplifyPath ends for every rectilinear path and every keepInside
\* and keepOutside: a removal that succeeds leaves the path with fewer
\* points, so the loop of simplifyPath makes no more rounds than the path
\* loses points, and no iteration reads a point beyond the path.
C28_SimplifyPathEnds ==
  /\ error # UndefinedPoint
  /\ RemovalsPossible =>
       \A k \in 0..(Len(result) - 1) :
         /\ \A withKeep \in BOOLEAN :
              \E ki \in { IF withKeep THEN Given(input.keepInside) ELSE NotGiven },
                 ko \in { IF withKeep THEN Given(others(result, k)) ELSE NotGiven } :
                /\ Shrinks(tryToRemoveAntiknobs(result[k + 1], ki, ko),
                           result[k + 1])
                /\ Shrinks(tryToRemoveClockwiseCorners(result[k + 1], ki, ko),
                           result[k + 1])
         /\ \E s \in { simplifyPathRounds(input.keepInside, others(result, k),
                                          result[k + 1], 0) } :
              IF s.ok
              THEN s.val.rounds <= Len(result[k + 1]) - Len(s.val.path)
              ELSE s.msg # UndefinedPoint

\* A removal has just taken points off a path on which simplifyPath makes
\* two rounds or more.
C28_Witness ==
  /\ RemovalsPossible
  /\ query # None
  /\ query.op \in { "tryToRemoveAntiknobs", "tryToRemoveClockwiseCorners" }
  /\ Len(result[query.k + 1]) < Len(query.before[query.k + 1])
  /\ \E s \in { simplifyPathRounds(input.keepInside, others(query.before, query.k),
                                   query.before[query.k + 1], 0) } :
       s.ok /\ s.val.rounds >= 2

-----------------------------------------------------------------------------
(* The promise of the worker-backed layout().                              *)

Settled == result # None /\ result # Pending

\* The worker has been terminated: by the message or error handler, or by
\* onAbort.
WorkerTerminated == pc \in {"done", "failed", "terminated", "late"}

\* C29: with a worker, whatever the order of abort, worker message and
\* worker error, the promise settles once and stays as it settled, it is
\* settled whenever no event is left to come, the worker is terminated in
\* every outcome, and the abort listener is removed once the worker has
\* answered, so that an abort after a success or a failure changes nothing.
C29_WorkerPromiseSettlesOnce ==
  [][settings.useWebWorkers =>
       /\ Settled => result' = result
       /\ pc' \in {"done", "failed", "terminated"} => Settled'
       /\ Settled' => WorkerTerminated'
       /\ pc' \in {"done", "failed"} => (query' = None \/ ~query'.listener)
       /\ pc \in {"done", "failed"} => (pc' = pc /\ result' = result)]_vars

\* The signal was aborted between the answer of the worker and its message
\* event: the promise is rejected with "aborted", the worker terminated,
\* and the success it had posted is still to arrive.
C29_Witness ==
  /\ settings.useWebWorkers
  /\ pc = "late"
  /\ error = NoError
  /\ result = Rejected("aborted")
  /\ query = Signal(TRUE, FALSE)


-----------------------------------------------------------------------------
(* The demo's LayoutView (demo/components/layout-view.tsx): an effect that *)
(* runs when the layout tree, the settings or the measure change and asks  *)
(* for a layout through the entry point above.  Here layout holds the      *)
(* requests made so far, one for each run of the effect, with the signal   *)
(* of the request's AbortController, its promise, where its layout stands  *)
(* (as pc above), the answer of its worker and whether the then/catch of   *)
(* the view has run for it; query holds abortController.current (0 for     *)
(* null, else the number of the request) and result the layoutResult state *)
(* of the component, with the request it belongs to.  The effect and the   *)
(* worker's events are tasks of the event loop; the code after an await    *)
(* and the then/catch callbacks are microtasks, which all run before the   *)
(* next task.                                                              *)

\* Most runs of the effect.
MaxRequests == 3

\* What a layout ends with: success, or the error it throws.
ViewAnswers == { NoError, NotIterable }

LayoutResult(status, request) == [status |-> status, request |-> request]

InitView ==
  /\ input = None
  /\ algo = "view"
  /\ settings = [useWebWorkers |-> TRUE]
  /\ pc = "view"
  /\ rlt = None /\ timetable = NoTimetable /\ ltWithRegions = None
  /\ backing = NoBacking /\ loop = NoLoop
  /\ layout = <<>>
  /\ result = LayoutResult("loading", 0)
  /\ error = NoError
  /\ query = 0

\* layout(...) as the effect calls it, up to the point where it gives the
\* turn back: with a worker the promise is pending and onAbort registered;
\* inline the layout has run, and either its result is awaited or the
\* error it threw has rejected the promise and the listener is removed.
startLayout(useWebWorkers, answer) ==
  IF useWebWorkers
  THEN [worker |-> TRUE, signal |-> Signal(FALSE, TRUE), promise |-> Pending,
        at |-> "begin", answer |-> NoError, reacted |-> FALSE]
  ELSE IF answer = NoError
  THEN [worker |-> FALSE, signal |-> Signal(FALSE, TRUE), promise |-> Pending,
        at |-> "awaiting", answer |-> answer, reacted |-> FALSE]
  ELSE [worker |-> FALSE, signal |-> Signal(FALSE, FALSE),
        promise |-> Rejected(answer),
        at |-> "failed", answer |-> answer, reacted |-> FALSE]

\* As abort, but the request is left as it is.
abortNothing(request) == request

\* abortController.current.abort(): the signal is aborted, and onAbort runs
\* if it is still registered.
abort(request) ==
  IF request.signal.listener
  THEN [request EXCEPT
          !.signal = Signal(TRUE, FALSE),
          !.promise = settle(@, Rejected("aborted")),
          !.at = IF request.worker /\ @ = "posted" THEN "late"
                 ELSE onAbort(request.worker, @)]
  ELSE [request EXCEPT !.signal = Signal(TRUE, FALSE)]

\* No microtask is waiting: no code after an await, no then/catch callback.
NoMicrotask ==
  \A r \in 1..Len(layout) :
    /\ layout[r].at # "awaiting"
    /\ layout[r].promise = Pending \/ layout[r].reacted

\* The effect runs: the inputs have changed (or the view is mounted).
Effect ==
  /\ pc = "view"
  /\ NoMicrotask
  /\ Len(layout) < MaxRequests
  /\ \E useWebWorkers \in BOOLEAN, answer \in ViewAnswers :
       /\ useWebWorkers => answer = NoError
       /\ settings' = [useWebWorkers |-> useWebWorkers]
       /\ layout' = Append(IF query # 0
                           THEN [layout EXCEPT ![query] = abort(@)]
                           ELSE layout,
                           startLayout(useWebWorkers, answer))
  /\ query' = Len(layout) + 1
  /\ result' = LayoutResult("loading", Len(layout) + 1)
  /\ UNCHANGED <<input, algo, pc, rlt, timetable, ltWithRegions, backing,
                 loop, error>>

\* The worker of a request ends its layout and posts its answer.
WorkerPosts(r, answer) ==
  /\ pc = "view"
  /\ layout[r].worker
  /\ layout[r].at = "begin"
  /\ layout' = [layout EXCEPT ![r].at = "posted", ![r].answer = answer]
  /\ UNCHANGED <<input, algo, settings, pc, rlt, timetable, ltWithRegions,
                 backing, loop, result, error, query>>

\* worker.onmessage of a request.
MessageEvent(r) ==
  /\ pc = "view"
  /\ NoMicrotask
  /\ layout[r].worker
  /\ layout[r].at \in {"posted", "late"}
  /\ layout' = [layout EXCEPT
       ![r].signal = removeListener(@),
       ![r].promise = settle(@, IF layout[r].answer = NoError THEN Resolved
                                ELSE Rejected(layout[r].answer)),
       ![r].at = IF @ = "late" THEN "terminated"
                 ELSE IF layout[r].answer = NoError THEN "done" ELSE "failed"]
  /\ UNCHANGED <<input, algo, settings, pc, rlt, timetable, ltWithRegions,
                 backing, loop, result, error, query>>

\* worker.onerror of a request.
ErrorEvent(r) ==
  /\ pc = "view"
  /\ NoMicrotask
  /\ layout[r].worker
  /\ layout[r].at = "begin"
  /\ layout' = [layout EXCEPT
       ![r].signal = removeListener(@),
       ![r].promise = settle(@, Rejected(WorkerFailed)),
       ![r].at = "failed",
       ![r].answer = WorkerFailed]
  /\ UNCHANGED <<input, algo, settings, pc, rlt, timetable, ltWithRegions,
                 backing, loop, result, error, query>>

\* Inline, the code after the await of a request.
ResumeInline(r) ==
  /\ pc = "view"
  /\ ~layout[r].worker
  /\ layout[r].at = "awaiting"
  /\ layout' = [layout EXCEPT
       ![r].signal = removeListener(@),
       ![r].promise = settle(@, Resolved),
       ![r].at = "done"]
  /\ UNCHANGED <<input, algo, settings, pc, rlt, timetable, ltWithRegions,
                 backing, loop, result, error, query>>

\* The then or the catch of the effect runs for a settled request.
Reaction(r) ==
  /\ pc = "view"
  /\ layout[r].promise # Pending
  /\ ~layout[r].reacted
  /\ layout' = [layout EXCEPT ![r].reacted = TRUE]
  /\ IF layout[r].promise = Resolved
     THEN /\ query' = 0
          /\ result' = LayoutResult("done", r)
     ELSE IF layout[r].promise.reason # "aborted"
     THEN /\ query' = 0
          /\ result' = LayoutResult("failed", r)
     ELSE UNCHANGED <<query, result>>
  /\ UNCHANGED <<input, algo, settings, pc, rlt, timetable, ltWithRegions,
                 backing, loop, error>>

NextView ==
  \/ Effect
  \/ \E r \in 1..Len(layout) :
       \/ \E answer \in ViewAnswers : WorkerPosts(r, answer)
       \/ MessageEvent(r)
       \/ ErrorEvent(r)
       \/ ResumeInline(r)
       \/ Reaction(r)

SpecView == InitView /\ [][NextView]_vars

\* The layout of a request is over for the view: its promise is settled
\* and its worker, if it has one, is terminated.
Over(request) ==
  /\ request.promise # Pending
  /\ request.worker => request.at \in {"done", "failed", "terminated", "late"}

\* The outcome of a request as the view shows it.
Shown(r) ==
  IF layout[r].promise = Resolved THEN LayoutResult("done", r)
  ELSE LayoutResult("failed", r)

\* C30: in the LayoutView, when the effect runs while a layout is in
\* flight, that layout is aborted before the new one starts, so every
\* request but the most recent is over, an earlier request whose callback
\* is yet to run is rejected with "aborted", and abortController.current is the
\* request in flight; the layoutResult state always belongs to the most
\* recent request, and once that request has settled and its callback has
\* run it is that request's outcome.
C30_LatestRequestShown ==
  algo = "view" =>
    LET n == Len(layout) IN
    /\ \A r \in 1..n :
         /\ r < n => Over(layout[r])
         /\ (r < n /\ ~layout[r].reacted) =>
              layout[r].promise = Rejected("aborted")
         /\ layout[r].promise = Pending => query = r
    /\ result.request = n
    /\ result.status # "loading" => result = Shown(n)
    /\ (n > 0 /\ layout[n].reacted) => result = Shown(n)

\* A layout in flight in a worker was aborted by a later run of the effect,
\* its answer arrived late, and the result of the later request is shown.
C30_Witness ==
  /\ algo = "view"
  /\ Len(layout) >= 2
  /\ layout[1].worker
  /\ layout[1].promise = Rejected("aborted")
  /\ layout[1].at = "terminated"
  /\ layout[1].answer = NoError
  /\ layout[2].promise = Resolved
  /\ result = LayoutResult("done", 2)
  /\ query = 0

=============================================================================
